---- MODULE Spec2Model ----
(***************************************************************************)
(* Pipeline orchestration core of pensy-ingest-api:                        *)
(*   src/pipeline/orchestrator.ts  (class PipelineOrchestrator)            *)
(*   migrations/002_pipeline_status.sql (trigger update_processing_steps)  *)
(* The registry is a JS Map (insertion ordered), modelled as a sequence of *)
(* step definitions with distinct names.  Promises are modelled by the     *)
(* position of each step attempt; database statements are atomic and may   *)
(* be rejected by the store.                                               *)
(***************************************************************************)
EXTENDS Integers, Sequences, FiniteSets, TLC

\* ---------------------------------------------------------------- inputs
StepNames == {"A", "B", "C"}

\* longest dependency list of a step definition handed to registerStep
MaxDeps == 2

\* longest requested step list handed to createExecutionPlan by the
\* registry specification
MaxReq == 2

\* an omitted requestedSteps argument (no list of step names equals it)
Undefined == <<"undefined">>

SeqToSet(q) == {q[i] : i \in 1..Len(q)}

Includes(q, x) == \E i \in 1..Len(q) : q[i] = x

\* dependency lists: sequences of distinct step names
DepLists ==
  {q \in UNION {[1..n -> StepNames] : n \in 0..MaxDeps} :
      \A i, j \in 1..Len(q) : i # j => q[i] # q[j]}

RequestLists == UNION {[1..n -> StepNames] : n \in 0..MaxReq}

\* ------------------------------------------------------------- registry
\* Map.has / Map.get / Map.set / Map.keys on the registry
Has(S, n) == \E i \in 1..Len(S) : S[i].name = n

Get(S, n) == S[CHOOSE i \in 1..Len(S) : S[i].name = n]

MapSet(S, step) ==
  IF Has(S, step.name)
    THEN [i \in 1..Len(S) |-> IF S[i].name = step.name THEN step ELSE S[i]]
    ELSE Append(S, step)

Keys(S) == [i \in 1..Len(S) |-> S[i].name]

\* dependencies of a name as the registry knows them (none when unregistered)
DepsOf(S, n) == IF Has(S, n) THEN Get(S, n).dependencies ELSE << >>

\* validateNoCycles: depth-first walk from the new step's dependencies through
\* the registered definitions; st = [visited, visiting, thrown]
RECURSIVE checkCycle(_, _, _)
RECURSIVE checkCycleAll(_, _, _, _)
checkCycle(S, current, st) ==
  IF st.thrown THEN st
  ELSE IF current \in st.visiting THEN [st EXCEPT !.thrown = TRUE]
  ELSE IF current \in st.visited THEN st
  ELSE LET st1 == [st EXCEPT !.visiting = @ \cup {current}]
           st2 == checkCycleAll(S, DepsOf(S, current), 1, st1)
       IN  IF st2.thrown THEN st2
           ELSE [st2 EXCEPT !.visiting = @ \ {current},
                            !.visited = @ \cup {current}]

checkCycleAll(S, deps, i, st) ==
  IF i > Len(deps) \/ st.thrown THEN st
  ELSE checkCycleAll(S, deps, i + 1, checkCycle(S, deps[i], st))

\* TRUE iff validateNoCycles throws "Circular dependency detected"
validateNoCycles(S, stepName, dependencies) ==
  checkCycleAll(S, dependencies, 1,
                [visited |-> {}, visiting |-> {}, thrown |-> FALSE]).thrown

\* registerStep: [thrown, steps] ; a step argument is a record
\* [name, dependencies, retryable, depsIsArray, executeIsFn]
registerStep(S, step) ==
  IF step.name = "" THEN [thrown |-> "invalid", steps |-> S]
  ELSE IF ~step.depsIsArray THEN [thrown |-> "invalid", steps |-> S]
  ELSE IF ~step.executeIsFn THEN [thrown |-> "invalid", steps |-> S]
  ELSE IF validateNoCycles(S, step.name, step.dependencies)
    THEN [thrown |-> "cycle", steps |-> S]
  ELSE [thrown |-> "none",
        steps |-> MapSet(S, [name |-> step.name,
                             dependencies |-> step.dependencies,
                             retryable |-> step.retryable])]

\* -------------------------------------------------------------- planner
\* variant: the name is added without its dependencies
addStepAndDependencies_NameOnly(S, stepName, stack, st) ==
  IF st.err # "none" THEN st
  ELSE IF Includes(st.all, stepName) THEN st
  ELSE IF ~Has(S, stepName)
    THEN [st EXCEPT !.err = "unknown", !.errStep = stepName]
  ELSE [st EXCEPT !.all = Append(@, stepName)]

\* createExecutionPlan, dependency expansion: st = [all, err, errStep];
\* stack is the chain of calls in progress.  A name that is re-entered while
\* it is still on the stack recurses without end (the set only gains a name
\* after its dependencies were added): the JS engine raises RangeError.
RECURSIVE addStepAndDependencies(_, _, _, _)
RECURSIVE addDepsAll(_, _, _, _, _)
addStepAndDependencies(S, stepName, stack, st) ==
  IF st.err # "none" THEN st
  ELSE IF Includes(st.all, stepName) THEN st
  ELSE IF ~Has(S, stepName)
    THEN [st EXCEPT !.err = "unknown", !.errStep = stepName]
  ELSE IF stepName \in stack
    THEN [st EXCEPT !.err = "stack_overflow", !.errStep = stepName]
  ELSE LET st1 == addDepsAll(S, Get(S, stepName).dependencies, 1,
                             stack \cup {stepName}, st)
       IN  IF st1.err # "none" THEN st1
           ELSE [st1 EXCEPT !.all = Append(@, stepName)]

addDepsAll(S, deps, i, stack, st) ==
  IF i > Len(deps) \/ st.err # "none" THEN st
  ELSE addDepsAll(S, deps, i + 1, stack,
                  addStepAndDependencies(S, deps[i], stack, st))

\* new Set(array): first occurrences, in order
RECURSIVE Dedup(_, _, _)
Dedup(q, i, acc) ==
  IF i > Len(q) THEN acc
  ELSE Dedup(q, i + 1, IF Includes(acc, q[i]) THEN acc ELSE Append(acc, q[i]))

\* topologicalSort: st = [visited, visiting, result, thrown]
RECURSIVE visit(_, _, _, _)
RECURSIVE visitAll(_, _, _, _, _)
\* variant: a name already visited is visited again
visit_Revisits(S, stepNames, stepName, st) ==
  IF st.thrown THEN st
  ELSE IF stepName \in st.visiting THEN [st EXCEPT !.thrown = TRUE]
  ELSE LET st1 == [st EXCEPT !.visiting = @ \cup {stepName}]
           deps == SelectSeq(DepsOf(S, stepName),
                             LAMBDA d : Includes(stepNames, d))
           st2 == visitAll(S, stepNames, deps, 1, st1)
       IN  IF st2.thrown THEN st2
           ELSE [st2 EXCEPT !.visiting = @ \ {stepName},
                            !.visited = @ \cup {stepName},
                            !.result = Append(@, stepName)]

visit(S, stepNames, stepName, st) ==
  IF st.thrown THEN st
  ELSE IF stepName \in st.visiting THEN [st EXCEPT !.thrown = TRUE]
  ELSE IF stepName \in st.visited THEN st
  ELSE LET st1 == [st EXCEPT !.visiting = @ \cup {stepName}]
           deps == SelectSeq(DepsOf(S, stepName),
                             LAMBDA d : Includes(stepNames, d))
           st2 == visitAll(S, stepNames, deps, 1, st1)
       IN  IF st2.thrown THEN st2
           ELSE [st2 EXCEPT !.visiting = @ \ {stepName},
                            !.visited = @ \cup {stepName},
                            !.result = Append(@, stepName)]

visitAll(S, stepNames, names, i, st) ==
  IF i > Len(names) \/ st.thrown THEN st
  ELSE visitAll(S, stepNames, names, i + 1, visit(S, stepNames, names[i], st))

\* variant: the names are visited from the last one to the first
topologicalSort_Reversed(S, stepNames) ==
  visitAll(S, stepNames,
           [i \in 1..Len(stepNames) |-> stepNames[Len(stepNames) + 1 - i]], 1,
           [visited |-> {}, visiting |-> {}, result |-> << >>,
            thrown |-> FALSE])

topologicalSort(S, stepNames) ==
  visitAll(S, stepNames, stepNames, 1,
           [visited |-> {}, visiting |-> {}, result |-> << >>,
            thrown |-> FALSE])

\* variant: the levels of the dependencies are not looked at
MaxDepLevel_Ignored(deps, i, stepLevels, maxDepLevel) == maxDepLevel

\* variant: a dependency without a level counts as level 0
RECURSIVE MaxDepLevel_MissingIsZero(_, _, _, _)
MaxDepLevel_MissingIsZero(deps, i, stepLevels, maxDepLevel) ==
  IF i > Len(deps) THEN maxDepLevel
  ELSE MaxDepLevel_MissingIsZero(deps, i + 1, stepLevels,
         LET depLevel == IF deps[i] \in DOMAIN stepLevels
                           THEN stepLevels[deps[i]] ELSE 0
         IN  IF depLevel > maxDepLevel THEN depLevel ELSE maxDepLevel)

\* createParallelGroups, first loop: stepLevels as a function built along
\* sortedSteps; a dependency without a level yet is skipped
RECURSIVE MaxDepLevel(_, _, _, _)
MaxDepLevel(deps, i, stepLevels, maxDepLevel) ==
  IF i > Len(deps) THEN maxDepLevel
  ELSE MaxDepLevel(deps, i + 1, stepLevels,
         IF deps[i] \in DOMAIN stepLevels /\ stepLevels[deps[i]] > maxDepLevel
           THEN stepLevels[deps[i]] ELSE maxDepLevel)

\* variant: maxDepLevel starts at 0 instead of -1
RECURSIVE StepLevels_FromZero(_, _, _, _)
StepLevels_FromZero(S, sortedSteps, i, stepLevels) ==
  IF i > Len(sortedSteps) THEN stepLevels
  ELSE LET stepName == sortedSteps[i]
           lvl == MaxDepLevel(Get(S, stepName).dependencies, 1,
                              stepLevels, 0) + 1
       IN  StepLevels_FromZero(S, sortedSteps, i + 1,
             [n \in DOMAIN stepLevels \cup {stepName} |->
                IF n = stepName THEN lvl ELSE stepLevels[n]])

RECURSIVE StepLevels(_, _, _, _)
StepLevels(S, sortedSteps, i, stepLevels) ==
  IF i > Len(sortedSteps) THEN stepLevels
  ELSE LET stepName == sortedSteps[i]
           lvl == MaxDepLevel(Get(S, stepName).dependencies, 1,
                              stepLevels, -1) + 1
       IN  StepLevels(S, sortedSteps, i + 1,
             [n \in DOMAIN stepLevels \cup {stepName} |->
                IF n = stepName THEN lvl ELSE stepLevels[n]])

\* second and third loop: groups keyed by level in Map insertion order, then
\* levels 0 .. levelGroups.size-1, a missing level being skipped
createParallelGroups(S, sortedSteps) ==
  LET stepLevels == StepLevels(S, sortedSteps, 1, << >>)
      \* Map keys keep the position of their first insertion
      order == Dedup(sortedSteps, 1, << >>)
      levelKeys == {stepLevels[n] : n \in DOMAIN stepLevels}
      group(l) == SelectSeq(order, LAMBDA n : stepLevels[n] = l)
      present == SelectSeq([k \in 1..Cardinality(levelKeys) |-> k - 1],
                           LAMBDA l : l \in levelKeys)
  IN  [k \in 1..Len(present) |-> group(present[k])]

NoPlan == [err |-> "none", errStep |-> "", steps |-> << >>,
           parallelGroups |-> << >>]

\* createExecutionPlan from a non-empty list of registered names
planRequiredSteps(S, stepsToRun, skipDependencies) ==
  LET expanded ==
        IF skipDependencies
          THEN [all |-> Dedup(stepsToRun, 1, << >>), err |-> "none",
                errStep |-> ""]
          ELSE addDepsAll(S, stepsToRun, 1, {},
                          [all |-> << >>, err |-> "none", errStep |-> ""])
  IN
  IF expanded.err # "none"
    THEN [NoPlan EXCEPT !.err = expanded.err, !.errStep = expanded.errStep]
  ELSE
    LET sorted == topologicalSort(S, expanded.all)
    IN  IF sorted.thrown THEN [NoPlan EXCEPT !.err = "circular"]
        ELSE [err |-> "none", errStep |-> "",
              steps |-> sorted.result,
              parallelGroups |-> createParallelGroups(S, sorted.result)]

\* variant: an empty list stands for all registered steps
buildPlan_EmptyMeansAll(S, stepsToRun, skipDependencies) ==
  IF Len(stepsToRun) = 0 /\ Len(S) = 0 THEN NoPlan
  ELSE planRequiredSteps(S, IF Len(stepsToRun) = 0 THEN Keys(S)
                            ELSE stepsToRun, skipDependencies)

\* createExecutionPlan once the requested names were validated
buildPlan(S, stepsToRun, skipDependencies) ==
  IF Len(stepsToRun) = 0 THEN NoPlan
  ELSE planRequiredSteps(S, stepsToRun, skipDependencies)

\* variant: the filter drops the unregistered names instead of throwing
createExecutionPlan_DropsUnknown(S, requestedSteps, skipDependencies) ==
  buildPlan(S, SelectSeq(requestedSteps, LAMBDA n : Has(S, n)),
            skipDependencies)

\* createExecutionPlan(requestedSteps, _, skipDependencies)
createExecutionPlan(S, requestedSteps, skipDependencies) ==
  LET unknown == {i \in 1..Len(requestedSteps) : ~Has(S, requestedSteps[i])}
  IN
  IF unknown # {}
    THEN [NoPlan EXCEPT !.err = "unknown",
                        !.errStep = requestedSteps[CHOOSE i \in unknown :
                                                   \A j \in unknown : i <= j]]
  ELSE buildPlan(S, requestedSteps, skipDependencies)

\* the message of the error a failed planning throws
planError(p) ==
  IF p.err = "unknown" THEN "Unknown pipeline step: " \o p.errStep
  ELSE p.err

\* ---------------------------------------------------------------- state
RunIds == {"r1", "r2"}

\* rows of table emails, and the ids callers pass ("e0" is not stored)
Emails == {"e1", "e2"}

EmailInputs == {"e1", "e0"}

\* longest requested step list handed to executeSteps
MaxRunReq == 1

\* number of statements the store rejects in one behaviour
MaxDbFailures == 1

RunRequestLists == UNION {[1..n -> StepNames] : n \in 0..MaxRunReq}

VARIABLES
  steps,         \* PipelineOrchestrator.steps
  lastCall,      \* the last registerStep / createExecutionPlan call
  registerCalls, \* number of registerStep calls made so far
  status,        \* table email_processing_status: email_id -> row or NoRow
  logs,          \* table pipeline_logs, in insertion order
  pc,            \* position of each executeSteps call
  args,          \* its arguments
  context,       \* its PipelineContext
  plan,          \* its ExecutionPlan
  groupIndex,    \* executePlan's loop variable (1-based)
  attempt,       \* position of each executeStep promise of the call
  rejectErr,     \* the error an executeStep promise rejected with
  action,        \* state of each step.execute(email) promise of the call
  callError,     \* the error the executeSteps promise rejected with
  statusWrites,  \* history: the status upserts issued by the call
  logWrites,     \* history: the log inserts issued by the call
  dbFailures,    \* number of statements the store has rejected so far
  outputs,       \* column content of tables email_outputs and
                 \* conversation_outputs
  inpoint        \* ingestion: stored source ids, queued jobs, and the
                 \* position of each POST /api/inpoint request

vars == <<steps, lastCall, registerCalls, status, logs, pc, args, context,
          plan, groupIndex, attempt, rejectErr, action, callError,
          statusWrites, logWrites, dbFailures, outputs, inpoint>>

runVars == <<status, logs, pc, args, context, plan, groupIndex, attempt,
             rejectErr, action, callError, statusWrites, logWrites,
             dbFailures, outputs, inpoint>>

Null == "null"

NoRow == [exists |-> FALSE]

\* table emails: the HTML of body.content and the conversation of each row,
\* in the order of received_at
Conversations == {"c1"}

EmailRows ==
  <<[id |-> "e1", html |-> "<p>Hi</p><!--x-->", conversation_id |-> "c1"],
    [id |-> "e2", html |-> "<b>Re</b><br>", conversation_id |-> "c1"]>>

EmailRow(emailId) ==
  EmailRows[CHOOSE i \in 1..Len(EmailRows) : EmailRows[i].id = emailId]

NoOutputs == [email_outputs |-> [e \in Emails |-> NoRow],
              conversation_outputs |-> [c \in Conversations |-> NoRow]]

\* POST /api/inpoint: requests, the source ids their messages carry, and
\* the id uuid_generate_v4() gives the row of each source id
Requests == {"q1", "q2"}

SourceIds == {"m1", "m2"}

MaxBatch == 2

Batches == UNION {[1..n -> SourceIds] : n \in 0..MaxBatch}

RowId(sourceId) == IF sourceId = "m1" THEN "e1" ELSE "e2"

NoRequest == [pc |-> "idle", messages |-> << >>, i |-> 0, response |-> 0,
              inserted |-> 0, duplicates |-> 0]

NoInpoint == [emails |-> << >>, jobs |-> << >>,
              req |-> [q \in Requests |-> NoRequest]]

NoCall == [op |-> "none"]

NoArgs == [emailId |-> "", requestedSteps |-> Undefined,
           skipDependencies |-> FALSE]

NoContext == [emailId |-> "", completedSteps |-> {}, failedSteps |-> {},
              stepResults |-> << >>]

\* the registry of a process: registerStep applied to the step modules' definitions
RECURSIVE RegisterAll(_, _, _)
RegisterAll(S, defs, i) ==
  IF i > Len(defs) THEN S
  ELSE RegisterAll(registerStep(S, defs[i]).steps, defs, i + 1)

StepDef(n, deps, r) ==
  [name |-> n, dependencies |-> deps, retryable |-> r,
   depsIsArray |-> TRUE, executeIsFn |-> TRUE]

\* dependency shapes of the three registered steps: chain (the shipped one),
\* fork and join
Shapes == { <<<< >>, <<"A">>, <<"B">>>>,
            <<<< >>, <<"A">>, <<"A">>>>,
            <<<< >>, << >>, <<"A", "B">>>> }

Registries ==
  {RegisterAll(<< >>, <<StepDef("A", sh[1], ra), StepDef("B", sh[2], rb),
                        StepDef("C", sh[3], rc)>>, 1) :
     sh \in Shapes, ra \in BOOLEAN, rb \in BOOLEAN, rc \in BOOLEAN}

InitRuns ==
  /\ status = [e \in Emails |-> NoRow]
  /\ logs = << >>
  /\ pc = [r \in RunIds |-> "idle"]
  /\ args = [r \in RunIds |-> NoArgs]
  /\ context = [r \in RunIds |-> NoContext]
  /\ plan = [r \in RunIds |-> NoPlan]
  /\ groupIndex = [r \in RunIds |-> 0]
  /\ attempt = [r \in RunIds |-> [s \in StepNames |-> "none"]]
  /\ rejectErr = [r \in RunIds |-> [s \in StepNames |-> "none"]]
  /\ action = [r \in RunIds |-> [s \in StepNames |-> "idle"]]
  /\ callError = [r \in RunIds |-> "none"]
  /\ statusWrites = [r \in RunIds |-> << >>]
  /\ logWrites = [r \in RunIds |-> << >>]
  /\ dbFailures = 0
  /\ outputs = NoOutputs
  /\ inpoint = NoInpoint

\* a process whose registry module has run
Init ==
  /\ steps \in Registries
  /\ lastCall = NoCall
  /\ registerCalls = 0
  /\ InitRuns

\* a freshly constructed orchestrator
InitRegistry ==
  /\ steps = << >>
  /\ lastCall = NoCall
  /\ registerCalls = 0
  /\ InitRuns

\* ------------------------------------------------------- registry actions
\* number of registerStep calls in one behaviour (the registry module makes
\* one per step)
MaxRegisterCalls == 3

StepInputs ==
  {StepDef(n, d, TRUE) : n \in StepNames, d \in DepLists}
  \cup {[StepDef("", << >>, TRUE) EXCEPT !.name = ""],
        [StepDef("A", << >>, TRUE) EXCEPT !.depsIsArray = FALSE],
        [StepDef("A", << >>, TRUE) EXCEPT !.executeIsFn = FALSE]}

RegisterStep(step) ==
  LET res == registerStep(steps, step)
  IN  /\ registerCalls < MaxRegisterCalls
      /\ registerCalls' = registerCalls + 1
      /\ steps' = res.steps
      /\ lastCall' = [op |-> "registerStep", step |-> step,
                      thrown |-> res.thrown]
      /\ UNCHANGED runVars

CreateExecutionPlan(requestedSteps, skipDependencies) ==
  /\ lastCall' = [op |-> "createExecutionPlan",
                  requestedSteps |-> requestedSteps,
                  skipDependencies |-> skipDependencies,
                  plan |-> createExecutionPlan(steps, requestedSteps,
                                               skipDependencies)]
  /\ UNCHANGED <<steps, registerCalls, runVars>>

NextRegistry == \E step \in StepInputs : RegisterStep(step)

SpecRegistry == InitRegistry /\ [][NextRegistry]_vars

\* --------------------------------------------------------- planner actions
\* registries a process can hold after three registerStep calls
PlanRegistries ==
  {RegisterAll(<< >>, <<a, b, c>>, 1) :
     a \in StepInputs, b \in StepInputs, c \in StepInputs}

InitPlan ==
  /\ steps \in PlanRegistries
  /\ lastCall = NoCall
  /\ registerCalls = 0
  /\ InitRuns

NextPlan ==
  /\ lastCall = NoCall
  /\ registerCalls = 0
  /\ \E q \in RequestLists, skip \in BOOLEAN : CreateExecutionPlan(q, skip)

SpecPlan == InitPlan /\ [][NextPlan]_vars

\* ------------------------------------------------------------ the store
\* outcomes of one statement: executed, or rejected by the store
DbOutcomes == IF dbFailures < MaxDbFailures THEN BOOLEAN ELSE {TRUE}

Statement(dbOk) == dbFailures' = IF dbOk THEN dbFailures ELSE dbFailures + 1

\* variant: array_append without the array_remove
ArrayRemove_Nothing(arr, x) == arr

ArrayRemove(arr, x) == SelectSeq(arr, LAMBDA y : y # x)

\* variant: ON CONFLICT (email_id) DO NOTHING
upsertStatus_DoNothing(row, st, currentStep) ==
  IF row.exists
    THEN row
    ELSE [exists |-> TRUE, status |-> st, current_step |-> currentStep,
          completed_steps |-> << >>, failed_steps |-> << >>]

\* INSERT INTO email_processing_status ... ON CONFLICT (email_id) DO UPDATE
\* (a NULL array is the empty sequence, as the trigger's COALESCE reads it)
upsertStatus(row, st, currentStep) ==
  IF row.exists
    THEN [row EXCEPT !.status = st, !.current_step = currentStep]
    ELSE [exists |-> TRUE, status |-> st, current_step |-> currentStep,
          completed_steps |-> << >>, failed_steps |-> << >>]

\* trigger update_processing_steps, AFTER INSERT ON pipeline_logs
update_processing_steps(row, new) ==
  IF row.exists
    THEN [row EXCEPT
            !.current_step = new.step,
            !.completed_steps =
               IF new.status = "ok"
                 THEN Append(ArrayRemove(@, new.step), new.step) ELSE @,
            !.failed_steps =
               IF new.status = "error"
                 THEN Append(ArrayRemove(@, new.step), new.step) ELSE @]
    ELSE [exists |-> TRUE, status |-> "processing", current_step |-> new.step,
          completed_steps |-> << >>, failed_steps |-> << >>]

\* ------------------------------------------------------------ executeSteps
\* variant: the failed set is not consulted
finalStatus_AlwaysCompleted(failedSteps) == "completed"

\* status written once executePlan has returned
finalStatus(failedSteps) ==
  IF Cardinality(failedSteps) = 0 THEN "completed" ELSE "partial_failure"

\* variant: the success is put in the completed set only
recordSuccess_SetOnly(ctx, stepName) ==
  [ctx EXCEPT !.completedSteps = @ \cup {stepName}]

\* context after a success / a failure was recorded
recordSuccess(ctx, stepName) ==
  [ctx EXCEPT
     !.stepResults = [n \in DOMAIN @ \cup {stepName} |->
                        IF n = stepName
                          THEN [success |-> TRUE, error |-> "none"] ELSE @[n]],
     !.completedSteps = @ \cup {stepName}]

\* variant: the failure is put in the result map only
recordFailure_ResultOnly(ctx, stepName, errorMessage) ==
  [ctx EXCEPT
     !.stepResults = [n \in DOMAIN @ \cup {stepName} |->
                        IF n = stepName
                          THEN [success |-> FALSE, error |-> errorMessage]
                          ELSE @[n]]]

recordFailure(ctx, stepName, errorMessage) ==
  [ctx EXCEPT
     !.stepResults = [n \in DOMAIN @ \cup {stepName} |->
                        IF n = stepName
                          THEN [success |-> FALSE, error |-> errorMessage]
                          ELSE @[n]],
     !.failedSteps = @ \cup {stepName}]

\* variant: a timeout is rethrown whatever the step's retryable flag
settleAfterErrorLog_TimeoutRethrown(retryable, error, dbOk) ==
  IF ~dbOk THEN [state |-> "rejected", error |-> "db"]
  ELSE IF ~retryable /\ error # "timeout"
    THEN [state |-> "fulfilled", error |-> "none"]
  ELSE [state |-> "rejected", error |-> error]

\* how the executeStep promise settles once the error log statement returned:
\* [state, error]
settleAfterErrorLog(retryable, error, dbOk) ==
  IF ~dbOk THEN [state |-> "rejected", error |-> "db"]
  ELSE IF ~retryable THEN [state |-> "fulfilled", error |-> "none"]
  ELSE [state |-> "rejected", error |-> error]

Settled(a) == a \in {"fulfilled", "rejected"}

\* variant: Promise.race - over as soon as one promise has settled
allSettled_FirstSettled(states) ==
  IF \E a \in states : a \in {"fulfilled", "rejected"}
    THEN "fulfilled" ELSE "pending"

\* variant: Promise.all - rejects as soon as one promise has rejected
allSettled_FailFast(states) ==
  IF \E a \in states : a = "rejected" THEN "rejected"
  ELSE IF \A a \in states : a = "fulfilled" THEN "fulfilled" ELSE "pending"

\* await Promise.allSettled(groupPromises), given the states of the promises
allSettled(states) ==
  IF \A a \in states : Settled(a) THEN "fulfilled" ELSE "pending"

Group(r) == plan[r].parallelGroups[groupIndex[r]]

\* variant: the statement is not restricted to the email's row
updateProcessingStatus_AllRows(r, st, currentStep, dbOk) ==
  /\ status' = IF dbOk
                 THEN [e \in Emails |-> upsertStatus(status[e], st, currentStep)]
                 ELSE status
  /\ statusWrites' = [statusWrites EXCEPT ![r] =
       Append(@, [status |-> st, currentStep |-> currentStep, ok |-> dbOk])]

\* updateProcessingStatus: the upsert, its error swallowed
updateProcessingStatus(r, st, currentStep, dbOk) ==
  /\ status' = IF dbOk
                 THEN [status EXCEPT ![args[r].emailId] =
                         upsertStatus(@, st, currentStep)]
                 ELSE status
  /\ statusWrites' = [statusWrites EXCEPT ![r] =
       Append(@, [status |-> st, currentStep |-> currentStep, ok |-> dbOk])]

\* variant: the row is not looked for, the id is taken as loaded
loadEmail_AnyId(emailId) == emailId

\* loadEmail: the row of table emails with that id, or null
loadEmail(emailId) == IF emailId \in Emails THEN emailId ELSE Null

\* executeSteps up to the first await of updateProcessingStatus
ExecuteSteps(r, emailId, requestedSteps, skipDependencies, dbOk) ==
  /\ pc[r] = "idle"
  /\ Statement(dbOk)
  /\ args' = [args EXCEPT ![r] = [emailId |-> emailId,
                                  requestedSteps |-> requestedSteps,
                                  skipDependencies |-> skipDependencies]]
  /\ LET stepsToRun == IF requestedSteps = Undefined THEN Keys(steps)
                       ELSE requestedSteps
         p == createExecutionPlan(steps, stepsToRun, skipDependencies)
     IN  IF ~dbOk
           THEN /\ pc' = [pc EXCEPT ![r] = "thrown"]
                /\ callError' = [callError EXCEPT ![r] = "db"]
                /\ UNCHANGED <<context, plan>>
         ELSE IF loadEmail(emailId) = Null
           THEN /\ pc' = [pc EXCEPT ![r] = "thrown"]
                /\ callError' = [callError EXCEPT ![r] = "email_not_found"]
                /\ UNCHANGED <<context, plan>>
         ELSE IF p.err # "none"
           THEN /\ pc' = [pc EXCEPT ![r] = "thrown"]
                /\ callError' = [callError EXCEPT ![r] = planError(p)]
                /\ context' = [context EXCEPT ![r] =
                                 [NoContext EXCEPT !.emailId = emailId]]
                /\ UNCHANGED plan
         ELSE /\ pc' = [pc EXCEPT ![r] = "status_initial"]
              /\ context' = [context EXCEPT ![r] =
                               [NoContext EXCEPT !.emailId = emailId]]
              /\ plan' = [plan EXCEPT ![r] = p]
              /\ UNCHANGED callError
  /\ UNCHANGED <<inpoint, outputs,
                 steps, lastCall, registerCalls, status, logs, groupIndex,
                 attempt, rejectErr, action, statusWrites, logWrites>>

\* variant: the current step written is the first requested name
StatusInitial_FirstRequested(r, dbOk) ==
  /\ pc[r] = "status_initial"
  /\ Statement(dbOk)
  /\ updateProcessingStatus(r, "processing",
        IF args[r].requestedSteps # Undefined /\ Len(args[r].requestedSteps) > 0
          THEN args[r].requestedSteps[1]
        ELSE IF Len(plan[r].steps) > 0 THEN plan[r].steps[1] ELSE Null, dbOk)
  /\ IF Len(plan[r].parallelGroups) > 0
       THEN /\ pc' = [pc EXCEPT ![r] = "dispatch"]
            /\ groupIndex' = [groupIndex EXCEPT ![r] = 1]
       ELSE /\ pc' = [pc EXCEPT ![r] = "status_final"]
            /\ UNCHANGED groupIndex
  /\ UNCHANGED <<inpoint, outputs,
                 steps, lastCall, registerCalls, logs, args, context, plan,
                 attempt, rejectErr, action, callError, logWrites>>

\* variant: updateProcessingStatus without its try/catch - the rejected
\* upsert rejects executeSteps (the call of line 155 is outside the try)
StatusInitial_Raises(r, dbOk) ==
  /\ pc[r] = "status_initial"
  /\ Statement(dbOk)
  /\ updateProcessingStatus(r, "processing",
        IF Len(plan[r].steps) > 0 THEN plan[r].steps[1] ELSE Null, dbOk)
  /\ IF ~dbOk
       THEN /\ pc' = [pc EXCEPT ![r] = "thrown"]
            /\ callError' = [callError EXCEPT ![r] = "db"]
            /\ UNCHANGED groupIndex
       ELSE IF Len(plan[r].parallelGroups) > 0
         THEN /\ pc' = [pc EXCEPT ![r] = "dispatch"]
              /\ groupIndex' = [groupIndex EXCEPT ![r] = 1]
              /\ UNCHANGED callError
         ELSE /\ pc' = [pc EXCEPT ![r] = "status_final"]
              /\ UNCHANGED <<groupIndex, callError>>
  /\ UNCHANGED <<inpoint, outputs,
                 steps, lastCall, registerCalls, logs, args, context, plan,
                 attempt, rejectErr, action, logWrites>>

\* variant: the first upsert already says completed
StatusInitial_WritesCompleted(r, dbOk) ==
  /\ pc[r] = "status_initial"
  /\ Statement(dbOk)
  /\ updateProcessingStatus(r, "completed",
        IF Len(plan[r].steps) > 0 THEN plan[r].steps[1] ELSE Null, dbOk)
  /\ IF Len(plan[r].parallelGroups) > 0
       THEN /\ pc' = [pc EXCEPT ![r] = "dispatch"]
            /\ groupIndex' = [groupIndex EXCEPT ![r] = 1]
       ELSE /\ pc' = [pc EXCEPT ![r] = "status_final"]
            /\ UNCHANGED groupIndex
  /\ UNCHANGED <<inpoint, outputs,
                 steps, lastCall, registerCalls, logs, args, context, plan,
                 attempt, rejectErr, action, callError, logWrites>>

\* await updateProcessingStatus(emailId, "processing", plan.steps[0])
StatusInitial(r, dbOk) ==
  /\ pc[r] = "status_initial"
  /\ Statement(dbOk)
  /\ updateProcessingStatus(r, "processing",
        IF Len(plan[r].steps) > 0 THEN plan[r].steps[1] ELSE Null, dbOk)
  /\ IF Len(plan[r].parallelGroups) > 0
       THEN /\ pc' = [pc EXCEPT ![r] = "dispatch"]
            /\ groupIndex' = [groupIndex EXCEPT ![r] = 1]
       ELSE /\ pc' = [pc EXCEPT ![r] = "status_final"]
            /\ UNCHANGED groupIndex
  /\ UNCHANGED <<inpoint, outputs,
                 steps, lastCall, registerCalls, logs, args, context, plan,
                 attempt, rejectErr, action, callError, logWrites>>

\* executePlan: group.map(executeStep) - every executeStep call runs up to its
\* await of Promise.race, which starts step.execute(context.email)
Dispatch(r) ==
  /\ pc[r] = "dispatch"
  /\ attempt' = [attempt EXCEPT ![r] =
       [s \in StepNames |-> IF Includes(Group(r), s) THEN "racing" ELSE @[s]]]
  /\ action' = [action EXCEPT ![r] =
       [s \in StepNames |-> IF Includes(Group(r), s) THEN "running" ELSE @[s]]]
  /\ pc' = [pc EXCEPT ![r] = "await_group"]
  /\ UNCHANGED <<inpoint, outputs,
                 dbFailures, steps, lastCall, registerCalls, status, logs,
                 args, context, plan, groupIndex, rejectErr, callError,
                 statusWrites, logWrites>>

\* ------------------------------------------------------- step actions
\* stripHtml.ts htmlToText with the comment and boilerplate removal of
\* lines 100-114, on the bodies of EmailRows
htmlToText(html) ==
  CASE html = "<p>Hi</p><!--x-->" -> "Hi"
    [] html = "<b>Re</b><br>" -> "Re"
    [] OTHER -> ""

\* stripHtml: the plain_text row of the email is inserted, or its content
\* overwritten (ON CONFLICT (email_id, output_type, pipeline_version));
\* an email without HTML makes it throw.  Result: [thrown, outputs]
stripHtml(email, out) ==
  IF email.html = "" THEN [thrown |-> TRUE, outputs |-> out]
  ELSE [thrown |-> FALSE,
        outputs |-> [out EXCEPT !.email_outputs[email.id] =
                       [exists |-> TRUE,
                        content |-> [text |-> htmlToText(email.html),
                                     attachments |-> << >>]]]]

\* conversation: the emails of the conversation with the plain text stored
\* for each ('' where email_outputs has no row), written to the row of the
\* conversation (ON CONFLICT (conversation_id))
conversation(email, out) ==
  IF email.conversation_id = Null THEN [thrown |-> FALSE, outputs |-> out]
  ELSE
    LET textOf(e) == IF out.email_outputs[e].exists
                       THEN out.email_outputs[e].content.text
                     ELSE ""
        rows == SelectSeq(EmailRows,
                  LAMBDA e : e.conversation_id = email.conversation_id)
        content ==
          [conversation_id |-> email.conversation_id,
           emails |-> [i \in 1..Len(rows) |->
                         [id |-> rows[i].id,
                          plain_text_content |-> textOf(rows[i].id)]],
           email_count |-> Len(rows)]
    IN  [thrown |-> FALSE,
         outputs |-> [out EXCEPT
                        !.conversation_outputs[email.conversation_id] =
                          [exists |-> TRUE, content |-> content]]]

\* summary: an UPDATE of columns title, summary, category, tags and
\* summary_metadata of the conversation's row; no row is added and column
\* content is not assigned
summary(email, out) == [thrown |-> FALSE, outputs |-> out]

\* step.execute(email) of the registered steps: A is strip_html,
\* B conversation, C summary
execute(s, email, out) ==
  CASE s = "A" -> stripHtml(email, out)
    [] s = "B" -> conversation(email, out)
    [] OTHER -> summary(email, out)

\* the action's promise fulfils first: success recorded, "ok" insert issued
StepResolves(r, s) ==
  /\ attempt[r][s] = "racing"
  /\ action[r][s] = "running"
  /\ ~execute(s, EmailRow(args[r].emailId), outputs).thrown
  /\ outputs' = execute(s, EmailRow(args[r].emailId), outputs).outputs
  /\ action' = [action EXCEPT ![r][s] = "resolved"]
  /\ context' = [context EXCEPT ![r] = recordSuccess(@, s)]
  /\ attempt' = [attempt EXCEPT ![r][s] = "log_ok"]
  /\ UNCHANGED <<inpoint, dbFailures, steps, lastCall, registerCalls, status, logs,
                 pc, args, plan, groupIndex, rejectErr, callError,
                 statusWrites, logWrites>>

\* the action's promise rejects first: failure recorded, "error" insert issued
StepRejects(r, s) ==
  /\ attempt[r][s] = "racing"
  /\ action[r][s] = "running"
  /\ action' = [action EXCEPT ![r][s] = "rejected"]
  /\ context' = [context EXCEPT ![r] = recordFailure(@, s, "thrown")]
  /\ attempt' = [attempt EXCEPT ![r][s] = "log_error"]
  /\ UNCHANGED <<inpoint, outputs,
                 dbFailures, steps, lastCall, registerCalls, status, logs,
                 pc, args, plan, groupIndex, rejectErr, callError,
                 statusWrites, logWrites>>

\* variant: no timer is set, the race is settled by the action only
StepTimesOut_NoTimer(r, s) ==
  /\ FALSE
  /\ UNCHANGED vars

\* the timer fires first: the race rejects, the action keeps running
StepTimesOut(r, s) ==
  /\ attempt[r][s] = "racing"
  /\ action[r][s] = "running"
  /\ context' = [context EXCEPT ![r] = recordFailure(@, s, "timeout")]
  /\ attempt' = [attempt EXCEPT ![r][s] = "log_error"]
  /\ UNCHANGED <<inpoint, outputs,
                 dbFailures, steps, lastCall, registerCalls, status, logs,
                 pc, args, plan, groupIndex, rejectErr, action, callError,
                 statusWrites, logWrites>>

\* an action that lost the race settles; nobody looks at its result
ActionSettlesLate(r, s, outcome) ==
  /\ attempt[r][s] # "racing"
  /\ action[r][s] = "running"
  /\ action' = [action EXCEPT ![r][s] = outcome]
  /\ IF outcome = "resolved"
       THEN /\ ~execute(s, EmailRow(args[r].emailId), outputs).thrown
            /\ outputs' = execute(s, EmailRow(args[r].emailId), outputs).outputs
       ELSE UNCHANGED outputs
  /\ UNCHANGED <<inpoint, dbFailures, steps, lastCall, registerCalls, status, logs,
                 pc, args, context, plan, groupIndex, attempt, rejectErr,
                 callError, statusWrites, logWrites>>

\* variant: the insert of the catch block carries "ok" like the one of the
\* try block
insertLog_AlwaysOk(r, s, st, err, dbOk) ==
  LET new == [email_id |-> args[r].emailId, step |-> s, status |-> "ok",
              error |-> err]
  IN  /\ logs' = IF dbOk THEN Append(logs, new) ELSE logs
      /\ status' = IF dbOk
                     THEN [status EXCEPT ![args[r].emailId] =
                             update_processing_steps(@, new)]
                     ELSE status
      /\ logWrites' = [logWrites EXCEPT ![r] =
           Append(@, [step |-> s, status |-> "ok", error |-> err, ok |-> dbOk])]

\* INSERT INTO pipeline_logs with its trigger, as one statement
insertLog(r, s, st, err, dbOk) ==
  LET new == [email_id |-> args[r].emailId, step |-> s, status |-> st,
              error |-> err]
  IN  /\ logs' = IF dbOk THEN Append(logs, new) ELSE logs
      /\ status' = IF dbOk
                     THEN [status EXCEPT ![args[r].emailId] =
                             update_processing_steps(@, new)]
                     ELSE status
      /\ logWrites' = [logWrites EXCEPT ![r] =
           Append(@, [step |-> s, status |-> st, error |-> err, ok |-> dbOk])]

\* the "ok" insert returns; a rejected insert lands in executeStep's catch
LogOk(r, s, dbOk) ==
  /\ attempt[r][s] = "log_ok"
  /\ Statement(dbOk)
  /\ insertLog(r, s, "ok", "none", dbOk)
  /\ IF dbOk
       THEN /\ attempt' = [attempt EXCEPT ![r][s] = "fulfilled"]
            /\ UNCHANGED context
       ELSE /\ attempt' = [attempt EXCEPT ![r][s] = "log_error"]
            /\ context' = [context EXCEPT ![r] = recordFailure(@, s, "db")]
  /\ UNCHANGED <<inpoint, outputs,
                 steps, lastCall, registerCalls, pc, args, plan, groupIndex,
                 rejectErr, action, callError, statusWrites>>

\* the "error" insert returns, then the retryable branch
LogError(r, s, dbOk) ==
  /\ attempt[r][s] = "log_error"
  /\ Statement(dbOk)
  /\ LET err == context[r].stepResults[s].error
         res == settleAfterErrorLog(Get(steps, s).retryable, err, dbOk)
     IN  /\ insertLog(r, s, "error", err, dbOk)
         /\ attempt' = [attempt EXCEPT ![r][s] = res.state]
         /\ rejectErr' = [rejectErr EXCEPT ![r][s] = res.error]
  /\ UNCHANGED <<inpoint, outputs,
                 steps, lastCall, registerCalls, pc, args, context, plan,
                 groupIndex, action, callError, statusWrites>>

\* variant: the current step written is the first step of the group that
\* has just settled
GroupSettled_SettledGroup(r, dbOk) ==
  /\ pc[r] = "await_group"
  /\ allSettled({attempt[r][Group(r)[i]] : i \in 1..Len(Group(r))}) # "pending"
  /\ IF groupIndex[r] < Len(plan[r].parallelGroups)
       THEN /\ updateProcessingStatus(r, "processing", Group(r)[1], dbOk)
            /\ Statement(dbOk)
            /\ groupIndex' = [groupIndex EXCEPT ![r] = @ + 1]
            /\ pc' = [pc EXCEPT ![r] = "dispatch"]
       ELSE /\ dbOk
            /\ pc' = [pc EXCEPT ![r] = "status_final"]
            /\ UNCHANGED <<status, statusWrites, groupIndex, dbFailures>>
  /\ UNCHANGED <<inpoint, outputs,
                 steps, lastCall, registerCalls, logs, args, context, plan,
                 attempt, rejectErr, action, callError, logWrites>>

\* variant: a group with a failed retryable step is dispatched again
GroupSettled_RetriesGroup(r, dbOk) ==
  /\ pc[r] = "await_group"
  /\ allSettled({attempt[r][Group(r)[i]] : i \in 1..Len(Group(r))}) # "pending"
  /\ IF \E s \in SeqToSet(Group(r)) :
          Get(steps, s).retryable /\ attempt[r][s] = "rejected"
       THEN /\ dbOk
            /\ pc' = [pc EXCEPT ![r] = "dispatch"]
            /\ UNCHANGED <<status, statusWrites, groupIndex, dbFailures>>
       ELSE IF groupIndex[r] < Len(plan[r].parallelGroups)
       THEN /\ updateProcessingStatus(r, "processing",
                  plan[r].parallelGroups[groupIndex[r] + 1][1], dbOk)
            /\ Statement(dbOk)
            /\ groupIndex' = [groupIndex EXCEPT ![r] = @ + 1]
            /\ pc' = [pc EXCEPT ![r] = "dispatch"]
       ELSE /\ dbOk
            /\ pc' = [pc EXCEPT ![r] = "status_final"]
            /\ UNCHANGED <<status, statusWrites, groupIndex, dbFailures>>
  /\ UNCHANGED <<inpoint, outputs,
                 steps, lastCall, registerCalls, logs, args, context, plan,
                 attempt, rejectErr, action, callError, logWrites>>

\* executePlan after the await of the group: next group's status, or return
GroupSettled(r, dbOk) ==
  /\ pc[r] = "await_group"
  /\ allSettled({attempt[r][Group(r)[i]] : i \in 1..Len(Group(r))}) # "pending"
  /\ IF groupIndex[r] < Len(plan[r].parallelGroups)
       THEN /\ updateProcessingStatus(r, "processing",
                  plan[r].parallelGroups[groupIndex[r] + 1][1], dbOk)
            /\ Statement(dbOk)
            /\ groupIndex' = [groupIndex EXCEPT ![r] = @ + 1]
            /\ pc' = [pc EXCEPT ![r] = "dispatch"]
       ELSE /\ dbOk
            /\ pc' = [pc EXCEPT ![r] = "status_final"]
            /\ UNCHANGED <<status, statusWrites, groupIndex, dbFailures>>
  /\ UNCHANGED <<inpoint, outputs,
                 steps, lastCall, registerCalls, logs, args, context, plan,
                 attempt, rejectErr, action, callError, logWrites>>

\* variant: a call with a failed step writes failed and rejects
Finalize_RaisesOnFailure(r, dbOk) ==
  /\ pc[r] = "status_final"
  /\ Statement(dbOk)
  /\ IF context[r].failedSteps = {}
       THEN /\ updateProcessingStatus(r, "completed", Null, dbOk)
            /\ pc' = [pc EXCEPT ![r] = "returned"]
            /\ UNCHANGED callError
       ELSE /\ updateProcessingStatus(r, "failed", Null, dbOk)
            /\ pc' = [pc EXCEPT ![r] = "thrown"]
            /\ callError' = [callError EXCEPT ![r] = "thrown"]
  /\ UNCHANGED <<inpoint, outputs,
                 steps, lastCall, registerCalls, logs, args, context, plan,
                 groupIndex, attempt, rejectErr, action, logWrites>>

\* executeSteps after executePlan returned.  The catch of lines 172-176 has
\* no entry: executePlan awaits Promise.allSettled, which fulfils whatever
\* the step promises did, and updateProcessingStatus catches its own errors.
Finalize(r, dbOk) ==
  /\ pc[r] = "status_final"
  /\ Statement(dbOk)
  /\ updateProcessingStatus(r, finalStatus(context[r].failedSteps), Null, dbOk)
  /\ pc' = [pc EXCEPT ![r] = "returned"]
  /\ UNCHANGED <<inpoint, outputs,
                 steps, lastCall, registerCalls, logs, args, context, plan,
                 groupIndex, attempt, rejectErr, action, callError,
                 logWrites>>

Run(r) ==
  \/ \E e \in EmailInputs, q \in {Undefined} \cup RunRequestLists,
        skip \in BOOLEAN, dbOk \in DbOutcomes :
          ExecuteSteps(r, e, q, skip, dbOk)
  \/ \E dbOk \in DbOutcomes : StatusInitial(r, dbOk)
  \/ Dispatch(r)
  \/ \E s \in StepNames : StepResolves(r, s)
  \/ \E s \in StepNames : StepRejects(r, s)
  \/ \E s \in StepNames : StepTimesOut(r, s)
  \/ \E s \in StepNames : ActionSettlesLate(r, s, "resolved")
  \/ \E s \in StepNames, dbOk \in DbOutcomes : LogOk(r, s, dbOk)
  \/ \E s \in StepNames, dbOk \in DbOutcomes : LogError(r, s, dbOk)
  \/ \E dbOk \in DbOutcomes : GroupSettled(r, dbOk)
  \/ \E dbOk \in DbOutcomes : Finalize(r, dbOk)

Next == Run("r1")

Spec == Init /\ [][Next]_vars

\* ------------------------------------------------------------ vocabulary
Finished(r) == pc[r] \in {"returned", "thrown"}

Planned(r) == SeqToSet(plan[r].steps)

Groups(r) == plan[r].parallelGroups

\* index of the level a planned step belongs to
LevelOf(r, s) == CHOOSE i \in 1..Len(Groups(r)) : Includes(Groups(r)[i], s)

Retryable(s) == Get(steps, s).retryable

HasResult(r, s) == s \in DOMAIN context[r].stepResults

\* steps whose attempt was recorded as a failure of the action (throw / timeout)
ActionFailures(r) ==
  {s \in StepNames : /\ HasResult(r, s)
                     /\ context[r].stepResults[s].error \in {"thrown", "timeout"}}

\* steps whose attempt was recorded as a failure of any kind
FailingSteps(r) ==
  {s \in StepNames : HasResult(r, s) /\ ~context[r].stepResults[s].success}

LastStatusWrite(r) == statusWrites[r][Len(statusWrites[r])]

PersistedStatus(r) == status[args[r].emailId]

\* names reachable from a set of names along registered dependencies
RECURSIVE ReachSet(_, _)
ReachSet(S, set) ==
  LET nxt == set \cup UNION {SeqToSet(DepsOf(S, n)) : n \in set}
  IN  IF nxt = set THEN set ELSE ReachSet(S, nxt)

Acyclic(S) ==
  \A i \in 1..Len(S) : S[i].name \notin ReachSet(S, SeqToSet(S[i].dependencies))

WellFormed(step) == step.name # "" /\ step.depsIsArray /\ step.executeIsFn

\* the new step's dependencies lead back to its own name through the
\* definitions registered so far
LeadsBack(S, step) ==
  step.name \in ReachSet(S, SeqToSet(step.dependencies))

ChainRegistry ==
  /\ Len(steps) = 3
  /\ Get(steps, "A").dependencies = << >>
  /\ Get(steps, "B").dependencies = <<"A">>
  /\ Get(steps, "C").dependencies = <<"B">>

\* ------------------------------------------------- a run and its replay
\* Run r1 is followed by run r2 of the same call (same arguments) in which
\* every step action and every log insert ends as it did in r1, while the
\* store accepts every status upsert of r2 and may reject any of r1's.

\* how the race of executeStep ended for step s in run o
RaceOutcome(o, s) ==
  IF HasResult(o, s) /\ context[o].stepResults[s].error = "timeout"
    THEN "timeout"
  ELSE IF action[o][s] = "rejected" THEN "rejected"
  ELSE "resolved"

\* whether the store accepted run o's log insert (s, st)
LogOutcome(o, s, st) ==
  \A i \in 1..Len(logWrites[o]) :
     (logWrites[o][i].step = s /\ logWrites[o][i].status = st)
        => logWrites[o][i].ok

\* loadEmail's query was rejected in run o
LoadFailed(o) == callError[o] = "db" /\ context[o] = NoContext

Original(r) ==
  \/ \E e \in EmailInputs, q \in {Undefined} \cup RunRequestLists,
        skip \in BOOLEAN, dbOk \in DbOutcomes :
          ExecuteSteps(r, e, q, skip, dbOk)
  \/ \E dbOk \in BOOLEAN : StatusInitial(r, dbOk)
  \/ Dispatch(r)
  \/ \E s \in StepNames : StepResolves(r, s)
  \/ \E s \in StepNames : StepRejects(r, s)
  \/ \E s \in StepNames : StepTimesOut(r, s)
  \/ \E s \in StepNames, dbOk \in DbOutcomes : LogOk(r, s, dbOk)
  \/ \E s \in StepNames, dbOk \in DbOutcomes : LogError(r, s, dbOk)
  \/ \E dbOk \in BOOLEAN : GroupSettled(r, dbOk)
  \/ \E dbOk \in BOOLEAN : Finalize(r, dbOk)

Replay(r, o) ==
  \/ Finished(o) /\ ExecuteSteps(r, args[o].emailId, args[o].requestedSteps,
                                  args[o].skipDependencies, ~LoadFailed(o))
  \/ Finished(o) /\ StatusInitial(r, TRUE)
  \/ Finished(o) /\ Dispatch(r)
  \/ \E s \in StepNames :
        Finished(o) /\ RaceOutcome(o, s) = "resolved" /\ StepResolves(r, s)
  \/ \E s \in StepNames :
        Finished(o) /\ RaceOutcome(o, s) = "rejected" /\ StepRejects(r, s)
  \/ \E s \in StepNames :
        Finished(o) /\ RaceOutcome(o, s) = "timeout" /\ StepTimesOut(r, s)
  \/ \E s \in StepNames :
        Finished(o) /\ LogOk(r, s, LogOutcome(o, s, "ok"))
  \/ \E s \in StepNames :
        Finished(o) /\ LogError(r, s, LogOutcome(o, s, "error"))
  \/ Finished(o) /\ GroupSettled(r, TRUE)
  \/ Finished(o) /\ Finalize(r, TRUE)

\* the three dependency shapes, the steps all retryable or all non-retryable
ReplayRegistries ==
  {RegisterAll(<< >>, <<StepDef("A", sh[1], rt), StepDef("B", sh[2], rt),
                        StepDef("C", sh[3], rt)>>, 1) :
     sh \in Shapes, rt \in BOOLEAN}

InitReplay ==
  /\ steps \in ReplayRegistries
  /\ lastCall = NoCall
  /\ registerCalls = 0
  /\ InitRuns

\* two calls of executeSteps in one process, their awaits interleaving; the
\* registry holds step A only, B and C are not registered
PairRegistries ==
  {RegisterAll(<< >>, <<StepDef("A", << >>, rt)>>, 1) : rt \in BOOLEAN}

InitPair ==
  /\ steps \in PairRegistries
  /\ lastCall = NoCall
  /\ registerCalls = 0
  /\ InitRuns

NextPair == Run("r1") \/ Run("r2")

SpecPair == InitPair /\ [][NextPair]_vars

\* two calls of executeSteps one after the other (the second call is made
\* once the first has returned or thrown); the registry holds A and B, B
\* after A
SeqRegistries ==
  {RegisterAll(<< >>, <<StepDef("A", << >>, rt), StepDef("B", <<"A">>, rt)>>,
               1) : rt \in BOOLEAN}

InitSeq ==
  /\ steps \in SeqRegistries
  /\ lastCall = NoCall
  /\ registerCalls = 0
  /\ InitRuns

\* the calls made: executeAll("e1") and executeSteps("e1", ["B"], skip)
SeqRequests == {Undefined, <<"B">>}

SeqStart(r) ==
  \E q \in SeqRequests, skip \in BOOLEAN, dbOk \in DbOutcomes :
     ExecuteSteps(r, "e1", q, skip, dbOk)

\* the steps of a call after its start
Proceed(r) ==
  \/ \E dbOk \in DbOutcomes : StatusInitial(r, dbOk)
  \/ Dispatch(r)
  \/ \E s \in StepNames : StepResolves(r, s)
  \/ \E s \in StepNames : StepRejects(r, s)
  \/ \E s \in StepNames : StepTimesOut(r, s)
  \/ \E s \in StepNames : ActionSettlesLate(r, s, "resolved")
  \/ \E s \in StepNames, dbOk \in DbOutcomes : LogOk(r, s, dbOk)
  \/ \E s \in StepNames, dbOk \in DbOutcomes : LogError(r, s, dbOk)
  \/ \E dbOk \in DbOutcomes : GroupSettled(r, dbOk)
  \/ \E dbOk \in DbOutcomes : Finalize(r, dbOk)

NextSeq ==
  \/ SeqStart("r1")
  \/ Proceed("r1")
  \/ Finished("r1") /\ SeqStart("r2")
  \/ Finished("r1") /\ Proceed("r2")

SpecSeq == InitSeq /\ [][NextSeq]_vars

\* two calls of executeSteps for different emails, their awaits
\* interleaving; the registry holds step A only
FrameStart(r, e) ==
  \E q \in {Undefined} \cup RunRequestLists, skip \in BOOLEAN,
     dbOk \in DbOutcomes : ExecuteSteps(r, e, q, skip, dbOk)

NextFrame ==
  \/ FrameStart("r1", "e1")
  \/ Proceed("r1")
  \/ FrameStart("r2", "e2")
  \/ Proceed("r2")

SpecFrame == InitPair /\ [][NextFrame]_vars

NextReplay == Original("r1") \/ Replay("r2", "r1")

\* whether the store accepted the status upsert of run o that corresponds
\* to the next one of run r
StatusOutcome(o, r) ==
  LET k == Len(statusWrites[r]) + 1
  IN  IF k <= Len(statusWrites[o]) THEN statusWrites[o][k].ok ELSE TRUE

\* variant: executeAll passes an empty list
executeAll_EmptyList(r, emailId, dbOk) ==
  ExecuteSteps(r, emailId, << >>, FALSE, dbOk)

\* executeAll(emailId): executeSteps with the one argument, requestedSteps
\* undefined and skipDependencies at its default
executeAll(r, emailId, dbOk) ==
  ExecuteSteps(r, emailId, Undefined, FALSE, dbOk)

\* the steps of call r after its start, its actions and statements ending
\* as those of the finished call o did
SameOutcomes(r, o) ==
  \/ Finished(o) /\ StatusInitial(r, StatusOutcome(o, r))
  \/ Finished(o) /\ Dispatch(r)
  \/ \E s \in StepNames :
        Finished(o) /\ RaceOutcome(o, s) = "resolved" /\ StepResolves(r, s)
  \/ \E s \in StepNames :
        Finished(o) /\ RaceOutcome(o, s) = "rejected" /\ StepRejects(r, s)
  \/ \E s \in StepNames :
        Finished(o) /\ RaceOutcome(o, s) = "timeout" /\ StepTimesOut(r, s)
  \/ \E s \in StepNames :
        Finished(o) /\ LogOk(r, s, LogOutcome(o, s, "ok"))
  \/ \E s \in StepNames :
        Finished(o) /\ LogError(r, s, LogOutcome(o, s, "error"))
  \/ Finished(o) /\ GroupSettled(r, StatusOutcome(o, r))
  \/ Finished(o) /\ Finalize(r, StatusOutcome(o, r))

\* registries of one, two and three steps; in one of them the only step
\* names a dependency that is not registered
AllRegistries ==
  {RegisterAll(<< >>, defs, 1) :
     defs \in UNION {
       { <<StepDef("A", << >>, rt)>>,
         <<StepDef("A", <<"B">>, rt)>>,
         <<StepDef("A", << >>, rt), StepDef("B", <<"A">>, rt)>>,
         <<StepDef("C", <<"B">>, rt), StepDef("B", <<"A">>, rt),
           StepDef("A", << >>, rt)>>,
         <<StepDef("A", << >>, rt), StepDef("B", << >>, rt),
           StepDef("C", <<"A", "B">>, rt)>> } : rt \in BOOLEAN }}

InitAll ==
  /\ steps \in AllRegistries
  /\ lastCall = NoCall
  /\ registerCalls = 0
  /\ InitRuns

\* executeAll(e), then executeSteps(e) with the same email
NextAll ==
  \/ \E e \in EmailInputs, dbOk \in DbOutcomes : executeAll("r1", e, dbOk)
  \/ Proceed("r1")
  \/ Finished("r1") /\ ExecuteSteps("r2", args["r1"].emailId, Undefined,
                                      FALSE, ~LoadFailed("r1"))
  \/ SameOutcomes("r2", "r1")

SpecAll == InitAll /\ [][NextAll]_vars

\* variant: the runner always includes dependencies
runPipelineSteps_NeverSkips(r, emailId, requestedSteps, dbOk) ==
  ExecuteSteps(r, emailId, requestedSteps, FALSE, dbOk)

\* runner.ts runPipelineSteps: skipDependencies is
\* `requestedSteps && requestedSteps.length > 0` - undefined without a list
\* (executeSteps then takes its default, false), false for an empty list;
\* the context is returned and an error rethrown as they come
runPipelineSteps(r, emailId, requestedSteps, dbOk) ==
  LET skipDependencies ==
        IF requestedSteps = Undefined THEN FALSE
        ELSE Len(requestedSteps) > 0
  IN  ExecuteSteps(r, emailId, requestedSteps, skipDependencies, dbOk)

\* runner.ts runSpecificSteps
runSpecificSteps(r, emailId, stepNames, dbOk) ==
  ExecuteSteps(r, emailId, stepNames, TRUE, dbOk)

\* payloads of the process-email job; "" is a payload without emailId
JobPayloads ==
  [emailId : EmailInputs \cup {""},
   requestedSteps : {Undefined} \cup RunRequestLists]

\* the handler startWorker registers, for one job of the batch
startWorker(r, singleJob, dbOk) ==
  IF singleJob.emailId = ""
    THEN /\ pc[r] = "idle"
         /\ dbOk
         /\ pc' = [pc EXCEPT ![r] = "thrown"]
         /\ callError' = [callError EXCEPT ![r] = "Invalid job data"]
         /\ UNCHANGED <<inpoint, outputs,
                        steps, lastCall, registerCalls, status, logs, args,
                        context, plan, groupIndex, attempt, rejectErr,
                        action, statusWrites, logWrites, dbFailures>>
  ELSE runPipelineSteps(r, singleJob.emailId, singleJob.requestedSteps, dbOk)

\* one run, started by a queue job or by runSpecificSteps
NextRunner ==
  \/ \E job \in JobPayloads, dbOk \in DbOutcomes :
        startWorker("r1", job, dbOk)
  \/ \E e \in EmailInputs, q \in RunRequestLists, dbOk \in DbOutcomes :
        runSpecificSteps("r1", e, q, dbOk)
  \/ Proceed("r1")

SpecRunner == InitAll /\ [][NextRunner]_vars

\* one call in a process whose event loop keeps running: every statement
\* sent to the store returns (accepted or rejected), a continuation that
\* can run does run, and the timer of a pending race fires.  Nothing makes
\* a step action settle.
LiveRegistries ==
  {RegisterAll(<< >>, <<StepDef("A", << >>, ra), StepDef("B", <<"A">>, rb)>>,
               1) : ra \in BOOLEAN, rb \in BOOLEAN}

InitLive ==
  /\ steps \in LiveRegistries
  /\ lastCall = NoCall
  /\ registerCalls = 0
  /\ InitRuns

Fairness(r) ==
  /\ WF_vars(\E dbOk \in DbOutcomes : StatusInitial(r, dbOk))
  /\ WF_vars(Dispatch(r))
  /\ \A s \in StepNames : WF_vars(StepTimesOut(r, s))
  /\ \A s \in StepNames : WF_vars(\E dbOk \in DbOutcomes : LogOk(r, s, dbOk))
  /\ \A s \in StepNames :
        WF_vars(\E dbOk \in DbOutcomes : LogError(r, s, dbOk))
  /\ WF_vars(\E dbOk \in DbOutcomes : GroupSettled(r, dbOk))
  /\ WF_vars(\E dbOk \in DbOutcomes : Finalize(r, dbOk))

SpecLive == InitLive /\ [][Next]_vars /\ Fairness("r1")

\* the registry of the shipped steps: strip_html, conversation after it,
\* summary after conversation, all retryable
ShippedRegistry ==
  RegisterAll(<< >>, <<StepDef("A", << >>, TRUE), StepDef("B", <<"A">>, TRUE),
                       StepDef("C", <<"B">>, TRUE)>>, 1)

InitTwice ==
  /\ steps = ShippedRegistry
  /\ lastCall = NoCall
  /\ registerCalls = 0
  /\ InitRuns

\* executeSteps called a second time with the same arguments once the first
\* call has returned or thrown; the second call's actions and statements
\* end as the first call's did, actions that timed out settle when they do
NextTwice ==
  \/ \E e \in EmailInputs, q \in {Undefined} \cup RunRequestLists,
        skip \in BOOLEAN, dbOk \in DbOutcomes :
          ExecuteSteps("r1", e, q, skip, dbOk)
  \/ Proceed("r1")
  \/ Finished("r1") /\ ExecuteSteps("r2", args["r1"].emailId,
                                      args["r1"].requestedSteps,
                                      args["r1"].skipDependencies,
                                      ~LoadFailed("r1"))
  \/ SameOutcomes("r2", "r1")
  \/ \E s \in StepNames : ActionSettlesLate("r2", s, "resolved")

SpecTwice == InitTwice /\ [][NextTwice]_vars

\* ------------------------------------------------------------ ingestion
\* the message the loop of request q is at
Msg(q) == inpoint.req[q].messages[inpoint.req[q].i]

\* the catch of POST: response 500
InternalServerError(q) ==
  [inpoint EXCEPT !.req[q].pc = "done", !.req[q].response = 500]

\* end of a loop iteration (also `continue`): next message, or response 200
NextMessage(ip, q) ==
  IF ip.req[q].i < Len(ip.req[q].messages)
    THEN [ip EXCEPT !.req[q].i = @ + 1, !.req[q].pc = "scrub"]
    ELSE [ip EXCEPT !.req[q].pc = "done", !.req[q].response = 200]

\* INSERT INTO pipeline_logs (.., 'inpoint', st, ..) with its trigger
inpointLog(emailId, st, dbOk) ==
  LET new == [email_id |-> emailId, step |-> "inpoint", status |-> st,
              error |-> "none"]
  IN  /\ logs' = IF dbOk THEN Append(logs, new) ELSE logs
      /\ status' = IF dbOk
                     THEN [status EXCEPT ![emailId] =
                             update_processing_steps(@, new)]
                     ELSE status

inpointVars == <<steps, lastCall, registerCalls, pc, args, context, plan,
                 groupIndex, attempt, rejectErr, action, callError,
                 statusWrites, logWrites, outputs>>

\* POST: the body is parsed; 400 unless it is an array
POST(q, isArray, messages) ==
  /\ inpoint.req[q].pc = "idle"
  /\ inpoint' =
       IF ~isArray
         THEN [inpoint EXCEPT !.req[q].pc = "done", !.req[q].response = 400]
       ELSE IF Len(messages) = 0
         THEN [inpoint EXCEPT !.req[q].pc = "done", !.req[q].response = 200]
       ELSE [inpoint EXCEPT !.req[q] =
               [NoRequest EXCEPT !.pc = "scrub", !.messages = messages,
                                 !.i = 1]]
  /\ UNCHANGED <<inpointVars, status, logs, dbFailures>>

\* await scrubText / scrubHtml: the calls to the PII service return or throw
Scrub(q, ok) ==
  /\ inpoint.req[q].pc = "scrub"
  /\ inpoint' = IF ok THEN [inpoint EXCEPT !.req[q].pc = "select"]
                ELSE InternalServerError(q)
  /\ UNCHANGED <<inpointVars, status, logs, dbFailures>>

\* SELECT id FROM emails WHERE source_id = $1
SelectExisting(q, dbOk) ==
  /\ inpoint.req[q].pc = "select"
  /\ Statement(dbOk)
  /\ inpoint' =
       IF ~dbOk THEN InternalServerError(q)
       ELSE IF Includes(inpoint.emails, Msg(q))
         THEN [inpoint EXCEPT !.req[q].pc = "duplicate_log",
                              !.req[q].duplicates = @ + 1]
       ELSE [inpoint EXCEPT !.req[q].pc = "insert"]
  /\ UNCHANGED <<inpointVars, status, logs>>

\* the 'duplicate' log insert, then `continue`
DuplicateLog(q, dbOk) ==
  /\ inpoint.req[q].pc = "duplicate_log"
  /\ Statement(dbOk)
  /\ inpointLog(RowId(Msg(q)), "duplicate", dbOk)
  /\ inpoint' = IF dbOk THEN NextMessage(inpoint, q)
                ELSE InternalServerError(q)
  /\ UNCHANGED inpointVars

\* INSERT INTO emails ... RETURNING id; source_id is UNIQUE
InsertEmail(q, dbOk) ==
  /\ inpoint.req[q].pc = "insert"
  /\ Statement(dbOk)
  /\ inpoint' =
       IF ~dbOk \/ Includes(inpoint.emails, Msg(q))
         THEN InternalServerError(q)
       ELSE [inpoint EXCEPT !.emails = Append(@, Msg(q)),
                            !.req[q].inserted = @ + 1,
                            !.req[q].pc = "enqueue"]
  /\ UNCHANGED <<inpointVars, status, logs>>

\* await enqueueEmailProcess(row.id): boss.send adds the job or rejects
enqueueEmailProcess(q, dbOk) ==
  /\ inpoint.req[q].pc = "enqueue"
  /\ Statement(dbOk)
  /\ inpoint' =
       IF dbOk THEN [inpoint EXCEPT !.jobs = Append(@, RowId(Msg(q))),
                                    !.req[q].pc = "ok_log"]
       ELSE InternalServerError(q)
  /\ UNCHANGED <<inpointVars, status, logs>>

\* the 'ok' log insert, end of the iteration
OkLog(q, dbOk) ==
  /\ inpoint.req[q].pc = "ok_log"
  /\ Statement(dbOk)
  /\ inpointLog(RowId(Msg(q)), "ok", dbOk)
  /\ inpoint' = IF dbOk THEN NextMessage(inpoint, q)
                ELSE InternalServerError(q)
  /\ UNCHANGED inpointVars

Inpoint(q) ==
  \/ \E isArray \in BOOLEAN, messages \in Batches : POST(q, isArray, messages)
  \/ \E ok \in BOOLEAN : Scrub(q, ok)
  \/ \E dbOk \in DbOutcomes : SelectExisting(q, dbOk)
  \/ \E dbOk \in DbOutcomes : DuplicateLog(q, dbOk)
  \/ \E dbOk \in DbOutcomes : InsertEmail(q, dbOk)
  \/ \E dbOk \in DbOutcomes : enqueueEmailProcess(q, dbOk)
  \/ \E dbOk \in DbOutcomes : OkLog(q, dbOk)

\* two requests, one after the other or overlapping
NextInpoint == \E q \in Requests : Inpoint(q)

\* the application as shipped: registry.ts has built its orchestrator, the
\* tables are empty and no request has arrived
InitInpoint ==
  /\ steps = ShippedRegistry
  /\ lastCall = NoCall
  /\ registerCalls = 0
  /\ InitRuns

SpecInpoint == InitInpoint /\ [][NextInpoint]_vars

SpecReplay == InitReplay /\ [][NextReplay]_vars

\* ------------------------------------------------------------------ C1
\* C1 (as claimed): once a retryable step of level i has failed (its action
\* threw or timed out), no step of a later level of that run is dispatched.
C1_NoLaterLevelAfterRetryableFailure ==
  \A r \in RunIds : \A s \in ActionFailures(r) : \A t \in Planned(r) :
     (Retryable(s) /\ LevelOf(r, t) > LevelOf(r, s)) => attempt[r][t] = "none"

\* ------------------------------------------------------------------ C2
\* C2 (as claimed): a run in which a retryable step failed ends by raising
\* that step's error, after the step's error log insert and with "failed" as
\* the last status it wrote.
C2_RetryableFailureRaisesAndWritesFailed ==
  \A r \in RunIds :
     (Finished(r) /\ \E s \in ActionFailures(r) : Retryable(s)) =>
        /\ pc[r] = "thrown"
        /\ \E s \in ActionFailures(r) :
              /\ Retryable(s)
              /\ callError[r] = context[r].stepResults[s].error
              /\ \E i \in 1..Len(logWrites[r]) :
                    logWrites[r][i].step = s /\ logWrites[r][i].status = "error"
        /\ LastStatusWrite(r).status = "failed"

\* ------------------------------------------------------------------ C3
\* C3: in a run whose failing steps are all non-retryable the call never
\* raises; when it has returned, every planned step of every level was
\* dispatched and has settled, every failing step is in the failed set, and
\* the last status written is partial_failure (persisted when the store
\* accepted the write).
C3_NonRetryableFailureAbsorbed ==
  \A r \in RunIds :
     (FailingSteps(r) # {} /\ \A s \in FailingSteps(r) : ~Retryable(s)) =>
        /\ pc[r] # "thrown"
        /\ pc[r] = "returned" =>
             /\ \A s \in Planned(r) : Settled(attempt[r][s])
             /\ FailingSteps(r) \subseteq context[r].failedSteps
             /\ LastStatusWrite(r).status = "partial_failure"
             /\ LastStatusWrite(r).ok =>
                  PersistedStatus(r).status = "partial_failure"

\* the chain A <- B <- C with B non-retryable and throwing has returned
C3_Witness ==
  /\ ChainRegistry
  /\ ~Retryable("B")
  /\ pc["r1"] = "returned"
  /\ action["r1"]["B"] = "rejected"
  /\ context["r1"].completedSteps = {"A", "C"}
  /\ context["r1"].failedSteps = {"B"}
  /\ PersistedStatus("r1").status = "partial_failure"

\* ------------------------------------------------------------------ C4
\* C4 (as claimed): a registerStep call whose step's dependencies lead back
\* to the step's own name through the registered definitions throws the
\* cyclic-dependency error and leaves the registry as it was.
C4_CyclicRegistrationRejected ==
  [][(/\ registerCalls' = registerCalls + 1
      /\ WellFormed(lastCall'.step)
      /\ LeadsBack(steps, lastCall'.step))
       => (lastCall'.thrown = "cycle" /\ steps' = steps)]_vars

\* ------------------------------------------------------------------ C5
\* C5 (as claimed): after any sequence of registerStep calls the dependency
\* graph over the registered steps has no cycle.
C5_RegistryAcyclic == Acyclic(steps)

\* ------------------------------------------------------------------ C6
\* C6: on an acyclic registry createExecutionPlan ends (it returns a plan or
\* reports an unknown step, it neither recurses without end nor reports a
\* cycle), and in a returned plan every dependency of a step that is in the
\* plan lies in a strictly earlier level and earlier in the ordered steps.
PositionIn(q, x) == CHOOSE i \in 1..Len(q) : q[i] = x

PlanLevel(p, s) ==
  CHOOSE i \in 1..Len(p.parallelGroups) : Includes(p.parallelGroups[i], s)

C6_PlanIsTopological ==
  (lastCall.op = "createExecutionPlan" /\ Acyclic(steps)) =>
     LET p == lastCall.plan
     IN  /\ p.err \in {"none", "unknown"}
         /\ p.err = "none" =>
              /\ \A s \in SeqToSet(p.steps) :
                   \E i \in 1..Len(p.parallelGroups) :
                      Includes(p.parallelGroups[i], s)
              /\ \A s \in SeqToSet(p.steps) :
                   \A d \in SeqToSet(DepsOf(steps, s)) \cap SeqToSet(p.steps) :
                      /\ PlanLevel(p, d) < PlanLevel(p, s)
                      /\ PositionIn(p.steps, d) < PositionIn(p.steps, s)

\* a plan of two levels one of whose steps has a dependency outside the plan
C6_Witness ==
  /\ lastCall.op = "createExecutionPlan"
  /\ Acyclic(steps)
  /\ lastCall.plan.err = "none"
  /\ Len(lastCall.plan.parallelGroups) = 2
  /\ \E s \in SeqToSet(lastCall.plan.steps) :
        \E d \in SeqToSet(DepsOf(steps, s)) :
           d \notin SeqToSet(lastCall.plan.steps)

\* ------------------------------------------------------------------ C7
\* C7: a run that has returned wrote, as its last status, completed when its
\* failed set is empty and partial_failure otherwise (persisted when the
\* store accepted the write); when every planned step succeeded the
\* completed set is the set of planned steps and the failed set is empty.
C7_FinalStatusMatchesFailedSet ==
  \A r \in RunIds :
     pc[r] = "returned" =>
        /\ LastStatusWrite(r).status =
             IF context[r].failedSteps = {} THEN "completed"
             ELSE "partial_failure"
        /\ LastStatusWrite(r).ok =>
             PersistedStatus(r).status = LastStatusWrite(r).status
        /\ (\A s \in Planned(r) :
               attempt[r][s] = "fulfilled" /\ HasResult(r, s)
               /\ context[r].stepResults[s].success) =>
             /\ context[r].completedSteps = Planned(r)
             /\ context[r].failedSteps = {}
             /\ LastStatusWrite(r).status = "completed"

\* the chain A <- B <- C ran with no restriction and every step succeeded
C7_Witness ==
  /\ ChainRegistry
  /\ pc["r1"] = "returned"
  /\ args["r1"].requestedSteps = Undefined
  /\ plan["r1"].parallelGroups = <<<<"A">>, <<"B">>, <<"C">>>>
  /\ context["r1"].completedSteps = {"A", "B", "C"}
  /\ context["r1"].failedSteps = {}
  /\ PersistedStatus("r1").status = "completed"

\* ------------------------------------------------------------------ C8
\* C8: a step of a later level is dispatched only when every step of every
\* earlier level has settled; so a step's action has not started while the
\* attempt of one of its planned dependencies is unsettled.
C8_LevelBarrier ==
  \A r \in RunIds : \A t \in Planned(r) :
     attempt[r][t] # "none" =>
        /\ \A s \in Planned(r) :
              LevelOf(r, s) < LevelOf(r, t) => Settled(attempt[r][s])
        /\ \A d \in SeqToSet(DepsOf(steps, t)) \cap Planned(r) :
              action[r][t] # "idle" => Settled(attempt[r][d])

\* a second-level step is running after a first-level attempt was rejected
C8_Witness ==
  \E s, t \in Planned("r1") :
     /\ LevelOf("r1", s) = 1
     /\ LevelOf("r1", t) = 2
     /\ attempt["r1"][s] = "rejected"
     /\ attempt["r1"][t] = "racing"

\* ------------------------------------------------------------------ C9
\* C9: the steps of a level are started together, and when the run has moved
\* past a level every step of it has settled with its result recorded in the
\* context, whatever the other steps of the level did.
PastLevel(r, i) ==
  \/ pc[r] \in {"status_final", "returned"}
  \/ groupIndex[r] > i

C9_WaitForAll ==
  \A r \in RunIds : \A i \in 1..Len(Groups(r)) :
     LET g == SeqToSet(Groups(r)[i])
     IN  /\ (\E s \in g : attempt[r][s] # "none") =>
               (\A s \in g : attempt[r][s] # "none" /\ action[r][s] # "idle")
         /\ PastLevel(r, i) =>
               \A s \in g : Settled(attempt[r][s]) /\ HasResult(r, s)

\* a level of two steps is behind the run: one attempt was rejected (a
\* retryable failure), the other one succeeded and is recorded
C9_Witness ==
  \E i \in 1..Len(Groups("r1")) : \E s, t \in SeqToSet(Groups("r1")[i]) :
     /\ PastLevel("r1", i)
     /\ s # t
     /\ attempt["r1"][s] = "rejected"
     /\ Retryable(s)
     /\ attempt["r1"][t] = "fulfilled"
     /\ t \in context["r1"].completedSteps

\* ------------------------------------------------------------------ C10
\* C10: an attempt whose timer fired first is recorded as a failure (failed
\* set, result with the timed-out error), one error insert carrying the
\* timed-out message is issued for it (and its record is in the log when the
\* store accepted it), and the attempt then settles as after a throw:
\* fulfilled when the step is non-retryable, rejected with the error when it
\* is retryable.  The firing timer leaves the action running.
AttemptOutcomeAfterFailure(r, s, err) ==
  LET w == {i \in 1..Len(logWrites[r]) : logWrites[r][i].step = s}
  IN  /\ s \in context[r].failedSteps
      /\ ~context[r].stepResults[s].success
      /\ attempt[r][s] \in {"log_error", "fulfilled", "rejected"}
      /\ Settled(attempt[r][s]) =>
           /\ Cardinality(w) = 1
           /\ \A i \in w :
                /\ logWrites[r][i].status = "error"
                /\ logWrites[r][i].error = err
                /\ logWrites[r][i].ok =>
                     /\ \E k \in 1..Len(logs) :
                           logs[k] = [email_id |-> args[r].emailId,
                                      step |-> s, status |-> "error",
                                      error |-> err]
                     /\ attempt[r][s] =
                          IF Retryable(s) THEN "rejected" ELSE "fulfilled"
                     /\ Retryable(s) => rejectErr[r][s] = err

C10_TimeoutIsFailure ==
  /\ [](\A r \in RunIds : \A s \in ActionFailures(r) :
          AttemptOutcomeAfterFailure(r, s, context[r].stepResults[s].error))
  /\ [][\A r \in RunIds : \A s \in StepNames :
          (/\ attempt[r][s] = "racing"
           /\ HasResult(r, s)'
           /\ context'[r].stepResults[s].error = "timeout")
            => action'[r][s] = "running"]_vars

\* a non-retryable step timed out, its error record is in the log, the
\* attempt was absorbed, and its action completed afterwards
C10_Witness ==
  \E s \in StepNames :
     /\ HasResult("r1", s)
     /\ context["r1"].stepResults[s].error = "timeout"
     /\ ~Retryable(s)
     /\ attempt["r1"][s] = "fulfilled"
     /\ action["r1"][s] = "resolved"
     /\ \E k \in 1..Len(logs) :
           logs[k].step = s /\ logs[k].error = "timeout"

\* ------------------------------------------------------------------ C11
\* C11: a run whose status upserts the store rejects (any of them) ends as
\* the run of the same call in which every status upsert is accepted: the
\* same return or the same error, the same completed and failed sets.  No
\* call rejects once it has issued a status upsert, and a call that is past
\* executePlan has dispatched every planned step.
C11_StatusWriteFailuresTransparent ==
  /\ (Finished("r1") /\ Finished("r2")) =>
        /\ pc["r2"] = pc["r1"]
        /\ callError["r2"] = callError["r1"]
        /\ context["r2"].completedSteps = context["r1"].completedSteps
        /\ context["r2"].failedSteps = context["r1"].failedSteps
  /\ \A r \in RunIds :
        /\ pc[r] = "thrown" => statusWrites[r] = << >>
        /\ pc[r] \in {"status_final", "returned"} =>
              \A s \in Planned(r) : Settled(attempt[r][s])

\* the chain ran twice with B failing: the store rejected the first run's
\* initial and final status upserts, and both runs returned
C11_Witness ==
  /\ ChainRegistry
  /\ pc["r1"] = "returned" /\ pc["r2"] = "returned"
  /\ Len(statusWrites["r1"]) = 4
  /\ ~statusWrites["r1"][1].ok
  /\ ~statusWrites["r1"][4].ok
  /\ context["r1"].failedSteps = {"B"}
  /\ context["r2"].completedSteps = {"A", "C"}

\* ------------------------------------------------------------------ C12
\* C12: an executeSteps call for an id that table emails does not hold has
\* thrown - the email-not-found error when the store answered the lookup -
\* and has issued no status upsert and no log insert and started no step
\* action; both tables are as they were.
C12_UnknownEmailAbortsBeforeAnyWrite ==
  \A r \in RunIds :
     (pc[r] # "idle" /\ args[r].emailId \notin Emails) =>
        /\ pc[r] = "thrown"
        /\ dbFailures = 0 => callError[r] = "email_not_found"
        /\ statusWrites[r] = << >>
        /\ logWrites[r] = << >>
        /\ \A s \in StepNames :
              attempt[r][s] = "none" /\ action[r][s] = "idle"
        /\ logs = << >>
        /\ \A e \in Emails : status[e] = NoRow

\* executeSteps("e0") has thrown the email-not-found error
C12_Witness ==
  /\ args["r1"].emailId = "e0"
  /\ pc["r1"] = "thrown"
  /\ callError["r1"] = "email_not_found"

\* ------------------------------------------------------------------ C13
\* C13: a call whose requested list holds a name that is not registered (its
\* email loaded) has thrown the unknown-step error naming such a name, holds
\* no plan, and has issued no status upsert and no log insert and started no
\* step action; and a call that throws changes neither the registry nor the
\* tables nor anything of the other call.
UnknownRequested(r) ==
  IF args[r].requestedSteps = Undefined THEN {}
  ELSE {n \in SeqToSet(args[r].requestedSteps) : ~Has(steps, n)}

RunState(r) ==
  <<pc[r], args[r], context[r], plan[r], groupIndex[r], attempt[r],
    rejectErr[r], action[r], callError[r], statusWrites[r], logWrites[r]>>

C13_UnknownStepAbortsCall ==
  /\ [](\A r \in RunIds :
         (pc[r] # "idle" /\ ~LoadFailed(r) /\ args[r].emailId \in Emails
          /\ UnknownRequested(r) # {}) =>
            /\ pc[r] = "thrown"
            /\ \E n \in UnknownRequested(r) :
                  callError[r] = "Unknown pipeline step: " \o n
            /\ plan[r] = NoPlan
            /\ statusWrites[r] = << >>
            /\ logWrites[r] = << >>
            /\ \A s \in StepNames :
                  attempt[r][s] = "none" /\ action[r][s] = "idle")
  /\ [][\A r \in RunIds :
          (pc[r] = "idle" /\ pc'[r] = "thrown") =>
             /\ steps' = steps
             /\ status' = status
             /\ logs' = logs
             /\ \A o \in RunIds \ {r} : RunState(o)' = RunState(o)]_vars

\* executeSteps("e1", ["C"]) has thrown while the other call, which has
\* written to both tables, is waiting for a step
C13_Witness ==
  /\ args["r1"].requestedSteps = <<"C">>
  /\ args["r1"].emailId = "e1"
  /\ pc["r1"] = "thrown"
  /\ callError["r1"] = "Unknown pipeline step: C"
  /\ pc["r2"] = "await_group"
  /\ logs # << >>
  /\ status["e1"].exists

\* ------------------------------------------------------------------ C14
\* C14: a plan built with dependencies included holds exactly the requested
\* names and the names reachable from them along dependencies, in its
\* ordered steps and in its levels; it is built whenever the registry is
\* acyclic and all those names are registered.  The chain A <- B <- C with
\* ["C"] requested gives the levels [[A],[B],[C]].
LevelNames(p) ==
  UNION {SeqToSet(p.parallelGroups[i]) : i \in 1..Len(p.parallelGroups)}

C14_PlanIsDependencyClosure ==
  (lastCall.op = "createExecutionPlan" /\ ~lastCall.skipDependencies) =>
     LET p == lastCall.plan
         closure == ReachSet(steps, SeqToSet(lastCall.requestedSteps))
     IN  /\ p.err = "none" =>
              /\ SeqToSet(p.steps) = closure
              /\ LevelNames(p) = closure
         /\ (Acyclic(steps) /\ \A n \in closure : Has(steps, n)) =>
              p.err = "none"
         /\ (ChainRegistry /\ lastCall.requestedSteps = <<"C">>) =>
              p.parallelGroups = <<<<"A">>, <<"B">>, <<"C">>>>

\* ["C"] was planned with dependencies on the chain A <- B <- C
C14_Witness ==
  /\ lastCall.op = "createExecutionPlan"
  /\ ~lastCall.skipDependencies
  /\ ChainRegistry
  /\ lastCall.requestedSteps = <<"C">>
  /\ lastCall.plan.steps = <<"A", "B", "C">>

\* ------------------------------------------------------------------ C15
\* C15: a plan built with skipDependencies holds exactly the requested names,
\* in its ordered steps and in its levels.  It is built whenever the
\* requested names are registered and have no dependency cycle among
\* themselves, whether or not their other dependencies are registered, and
\* it is the plan the registry gives once every dependency on a name that
\* was not requested is erased.
Restrict(S, names) ==
  [i \in 1..Len(S) |->
     [S[i] EXCEPT !.dependencies = SelectSeq(@, LAMBDA d : d \in names)]]

C15_SkipDependenciesPlansRequestedOnly ==
  (lastCall.op = "createExecutionPlan" /\ lastCall.skipDependencies) =>
     LET p == lastCall.plan
         requested == SeqToSet(lastCall.requestedSteps)
         inSet == Restrict(steps, requested)
     IN  /\ p.err = "none" =>
              /\ SeqToSet(p.steps) = requested
              /\ LevelNames(p) = requested
         /\ (\A n \in requested : Has(steps, n)) =>
              /\ p.err = "none" <=> Acyclic(inSet)
              /\ p = createExecutionPlan(inSet, lastCall.requestedSteps, TRUE)

\* a step was planned alone although its dependency is not registered
C15_Witness ==
  /\ lastCall.op = "createExecutionPlan"
  /\ lastCall.skipDependencies
  /\ lastCall.plan.err = "none"
  /\ \E s \in StepNames :
        /\ lastCall.plan.parallelGroups = <<<<s>>>>
        /\ \E d \in SeqToSet(DepsOf(steps, s)) : ~Has(steps, d)

\* ------------------------------------------------------------------ C16
\* C16: in a returned plan a step without a dependency in the plan is in the
\* first level, any other step is in the level after the last one holding
\* one of its dependencies in the plan; every step has a level, and no level
\* is empty (the levels are the consecutive indexes of parallelGroups).
Max(set) == CHOOSE x \in set : \A y \in set : y <= x

C16_LevelIsOnePlusMaxDependencyLevel ==
  (lastCall.op = "createExecutionPlan" /\ lastCall.plan.err = "none") =>
     LET p == lastCall.plan
         planned == SeqToSet(p.steps)
     IN  /\ \A i \in 1..Len(p.parallelGroups) : Len(p.parallelGroups[i]) > 0
         /\ \A s \in planned :
               LET deps == SeqToSet(DepsOf(steps, s)) \cap planned
               IN  /\ s \in LevelNames(p)
                   /\ \A d \in deps : d \in LevelNames(p)
                   /\ PlanLevel(p, s) =
                        IF deps = {} THEN 1
                        ELSE 1 + Max({PlanLevel(p, d) : d \in deps})

\* a step of the third level has one dependency in the first level and one
\* in the second
C16_Witness ==
  /\ lastCall.op = "createExecutionPlan"
  /\ lastCall.plan.err = "none"
  /\ Len(lastCall.plan.parallelGroups) = 3
  /\ \E s \in SeqToSet(lastCall.plan.parallelGroups[3]) :
        \E d, e \in SeqToSet(DepsOf(steps, s)) :
           /\ Includes(lastCall.plan.parallelGroups[1], d)
           /\ Includes(lastCall.plan.parallelGroups[2], e)

\* ------------------------------------------------------------------ C17
\* C17: createExecutionPlan with an empty requested list returns the empty
\* plan - no step, no level, no error - whatever the registry holds and
\* whichever the value of skipDependencies.
C17_EmptyRequestGivesEmptyPlan ==
  (lastCall.op = "createExecutionPlan" /\ lastCall.requestedSteps = << >>) =>
     /\ lastCall.plan.err = "none"
     /\ lastCall.plan.steps = << >>
     /\ lastCall.plan.parallelGroups = << >>

\* the empty list was planned with skipDependencies on a registry of three
\* steps
C17_Witness ==
  /\ lastCall.op = "createExecutionPlan"
  /\ lastCall.requestedSteps = << >>
  /\ lastCall.skipDependencies
  /\ lastCall.plan = NoPlan
  /\ Len(steps) = 3

\* ------------------------------------------------------------------ C18
\* C18: the order of a returned plan is fixed by the order of the requested
\* list: a step first reached (along dependencies inside the plan) from an
\* earlier requested name comes before every step first reached from a
\* later one, in the ordered steps; and the steps of a level follow each
\* other as they do in the ordered steps.
FirstSeenFrom(S, requestedSteps, planned, s) ==
  LET inPlan == Restrict(S, planned)
  IN  CHOOSE i \in 1..Len(requestedSteps) :
        /\ s \in ReachSet(inPlan, {requestedSteps[i]})
        /\ \A j \in 1..(i - 1) : s \notin ReachSet(inPlan, {requestedSteps[j]})

C18_PlanOrderIsFirstSeenOrder ==
  (lastCall.op = "createExecutionPlan" /\ lastCall.plan.err = "none") =>
     LET p == lastCall.plan
         q == lastCall.requestedSteps
         planned == SeqToSet(p.steps)
     IN  /\ \A s \in planned :
               \E i \in 1..Len(q) :
                  s \in ReachSet(Restrict(steps, planned), {q[i]})
         /\ \A s, t \in planned :
               FirstSeenFrom(steps, q, planned, s)
                 < FirstSeenFrom(steps, q, planned, t)
                  => PositionIn(p.steps, s) < PositionIn(p.steps, t)
         /\ \A i \in 1..Len(p.parallelGroups) :
               \A a, b \in 1..Len(p.parallelGroups[i]) :
                  a < b => PositionIn(p.steps, p.parallelGroups[i][a])
                             < PositionIn(p.steps, p.parallelGroups[i][b])

\* ["B", "A"] was planned where A was registered before B and neither
\* depends on the other: one level, B first
C18_Witness ==
  /\ lastCall.op = "createExecutionPlan"
  /\ lastCall.requestedSteps = <<"B", "A">>
  /\ Has(steps, "A") /\ Has(steps, "B")
  /\ PositionIn(Keys(steps), "A") < PositionIn(Keys(steps), "B")
  /\ lastCall.plan.steps = <<"B", "A">>
  /\ lastCall.plan.parallelGroups = <<<<"B", "A">>>>

\* ------------------------------------------------------------------ C19
\* positions in the log of the records of run r for step s (one run per
\* behaviour)
LogRecords(r, s) ==
  {k \in 1..Len(logs) : logs[k].email_id = args[r].emailId /\ logs[k].step = s}

\* the log inserts run r issued for step s, in order
InsertsFor(r, s) == SelectSeq(logWrites[r], LAMBDA w : w.step = s)

\* the record of every insert the store accepted is in the log
AcceptedInsertsKept ==
  \A r \in RunIds : \A i \in 1..Len(logWrites[r]) :
     logWrites[r][i].ok =>
        \E k \in 1..Len(logs) :
           logs[k] = [email_id |-> args[r].emailId,
                      step |-> logWrites[r][i].step,
                      status |-> logWrites[r][i].status,
                      error |-> logWrites[r][i].error]

RecordMatchesResult(r, s, k) ==
  /\ logs[k].status = "ok" <=>
        (context[r].stepResults[s].success /\ s \in context[r].completedSteps)
  /\ logs[k].status = "error" <=>
        (~context[r].stepResults[s].success /\ s \in context[r].failedSteps)

\* C19 (as claimed): every settled attempt has exactly one record in the
\* log: ok exactly when its result is a success and the step is in the
\* completed set, error exactly when its result is a failure and the step is
\* in the failed set; no record is modified or removed.
C19_ExactlyOneLogRecordPerAttempt ==
  /\ \A r \in RunIds : \A s \in StepNames :
        Settled(attempt[r][s]) =>
           /\ Cardinality(LogRecords(r, s)) = 1
           /\ \A k \in LogRecords(r, s) : RecordMatchesResult(r, s, k)
  /\ AcceptedInsertsKept

\* C19 (amended): every settled attempt has exactly one record in the log
\* when the store accepted the last log insert of the attempt and none
\* otherwise; the record is ok exactly when the attempt's result is a success
\* and the step is in the completed set, error exactly when the result is a
\* failure and the step is in the failed set; no record is modified or
\* removed.
C19_OneLogRecordWhenInsertAccepted ==
  /\ \A r \in RunIds : \A s \in StepNames :
        Settled(attempt[r][s]) =>
           LET w == InsertsFor(r, s)
           IN  /\ Len(w) >= 1
               /\ Cardinality(LogRecords(r, s)) = IF w[Len(w)].ok THEN 1 ELSE 0
               /\ \A i \in 1..(Len(w) - 1) : ~w[i].ok
               /\ \A k \in LogRecords(r, s) : RecordMatchesResult(r, s, k)
  /\ AcceptedInsertsKept

\* the run returned with an ok record for A and an error record for B
C19_Witness ==
  /\ pc["r1"] = "returned"
  /\ "A" \in context["r1"].completedSteps
  /\ "B" \in context["r1"].failedSteps
  /\ \E k \in LogRecords("r1", "A") : logs[k].status = "ok"
  /\ \E k \in LogRecords("r1", "B") : logs[k].status = "error"
  /\ Cardinality(LogRecords("r1", "A")) = 1
  /\ Cardinality(LogRecords("r1", "B")) = 1

\* ------------------------------------------------------------------ C20
\* C20 (as claimed): when a run has returned, the persisted status record of
\* its email lists every step whose failure the run logged in failed_steps
\* and every step whose success it logged in completed_steps, whether or not
\* a record existed before the run and whether or not the initial status
\* upsert was accepted.
C20_PersistedArraysListLoggedSteps ==
  \A r \in RunIds :
     pc[r] = "returned" =>
        \A k \in 1..Len(logs) :
           logs[k].email_id = args[r].emailId =>
              /\ PersistedStatus(r).exists
              /\ logs[k].status = "error" =>
                    Includes(PersistedStatus(r).failed_steps, logs[k].step)
              /\ logs[k].status = "ok" =>
                    Includes(PersistedStatus(r).completed_steps, logs[k].step)

\* ------------------------------------------------------------------ C21
\* C21: over calls made one after the other, no statement removes a name
\* from completed_steps or failed_steps of a status record (a record once
\* created stays), and no name occurs twice in either array.
NoDuplicates(q) == \A i, j \in 1..Len(q) : q[i] = q[j] => i = j

C21_StepArraysOnlyGrow ==
  /\ [](\A e \in Emails :
          status[e].exists =>
             /\ NoDuplicates(status[e].completed_steps)
             /\ NoDuplicates(status[e].failed_steps))
  /\ [][\A e \in Emails :
          status[e].exists =>
             /\ status'[e].exists
             /\ SeqToSet(status[e].completed_steps)
                   \subseteq SeqToSet(status'[e].completed_steps)
             /\ SeqToSet(status[e].failed_steps)
                   \subseteq SeqToSet(status'[e].failed_steps)]_vars

\* A failed in the first call and succeeded in the second, B succeeded in
\* both: A is in both arrays, B once in completed_steps
C21_Witness ==
  /\ pc["r1"] = "returned" /\ pc["r2"] = "returned"
  /\ "A" \in context["r1"].failedSteps
  /\ context["r2"].completedSteps = {"A", "B"}
  /\ context["r2"].failedSteps = {}
  /\ status["e1"].failed_steps = <<"A">>
  /\ status["e1"].completed_steps = <<"A", "B">>

\* ------------------------------------------------------------------ C22
\* the values the CHECK constraint of column status admits
StatusValues ==
  {"pending", "processing", "completed", "failed", "partial_failure"}

WellFormedRow(row) ==
  /\ row.exists
  /\ row.status \in StatusValues
  /\ row.current_step \in StepNames \cup {Null}
  /\ NoDuplicates(row.completed_steps)
  /\ NoDuplicates(row.failed_steps)

\* run r has, in this step, issued a status upsert that the store accepted
UpsertAccepted(r) ==
  /\ Len(statusWrites'[r]) = Len(statusWrites[r]) + 1
  /\ statusWrites'[r][Len(statusWrites'[r])].ok

RECURSIVE ApplyLogs(_, _, _, _)
ApplyLogs(row, e, w, i) ==
  IF i > Len(w) THEN row
  ELSE ApplyLogs(IF w[i].ok
                   THEN update_processing_steps(row,
                          [email_id |-> e, step |-> w[i].step,
                           status |-> w[i].status, error |-> w[i].error])
                   ELSE row, e, w, i + 1)

ApplyUpsert(row, w) ==
  IF w.ok THEN upsertStatus(row, w.status, w.currentStep) ELSE row

RowOfRunAlone(r) ==
  LET sw == statusWrites[r]
      r1 == IF Len(sw) >= 1 THEN ApplyUpsert(NoRow, sw[1]) ELSE NoRow
      r2 == ApplyLogs(r1, args[r].emailId, logWrites[r], 1)
  IN  IF Len(sw) >= 2 THEN ApplyUpsert(r2, sw[2]) ELSE r2

LogOfRunAlone(r) ==
  LET w == SelectSeq(logWrites[r], LAMBDA x : x.ok)
  IN  [i \in 1..Len(w) |-> [email_id |-> args[r].emailId, step |-> w[i].step,
                            status |-> w[i].status, error |-> w[i].error]]

\* C23: a step of a call changes nothing of the other call, no status
\* record but that of its own email, and the log only by appending a record
\* for its own email; so with two calls for different emails interleaved,
\* the record and the log records of each email are at every point those
\* its call leaves when it runs alone.
C23_RunTouchesOwnEmailOnly ==
  /\ [](\A r \in RunIds :
          (pc[r] # "idle" /\ args[r].emailId \in Emails) =>
             /\ status[args[r].emailId] = RowOfRunAlone(r)
             /\ SelectSeq(logs, LAMBDA x : x.email_id = args[r].emailId)
                  = LogOfRunAlone(r)
             /\ context[r].emailId \in {"", args[r].emailId})
  /\ [][\A r \in RunIds :
          RunState(r)' # RunState(r) =>
             /\ \A o \in RunIds \ {r} : RunState(o)' = RunState(o)
             /\ \A e \in Emails \ {args'[r].emailId} : status'[e] = status[e]
             /\ \/ logs' = logs
                \/ /\ Len(logs') = Len(logs) + 1
                   /\ SubSeq(logs', 1, Len(logs)) = logs
                   /\ logs'[Len(logs')].email_id = args[r].emailId]_vars

\* the calls for e1 and e2 overlapped (each started before the other had
\* ended, the log alternates) and have returned with different outcomes
C23_Witness ==
  /\ pc["r1"] = "returned" /\ pc["r2"] = "returned"
  /\ Len(logs) = 2
  /\ logs[1].email_id = "e2" /\ logs[2].email_id = "e1"
  /\ status["e1"].status = "completed"
  /\ status["e1"].completed_steps = <<"A">>
  /\ status["e2"].status = "partial_failure"
  /\ status["e2"].failed_steps = <<"A">>
  /\ context["r1"].completedSteps = {"A"}
  /\ context["r2"].failedSteps = {"A"}

\* ------------------------------------------------------------------ C24
\* C24: a call that has loaded its email and built its plan starts no step
\* action before it has issued, as its first status upsert, processing with
\* the first step of the plan's ordered steps as current step (no current
\* step when the plan is empty); the record holds both once the store has
\* accepted the upsert and until the next statement.
C24_ProcessingWrittenBeforeFirstAction ==
  /\ [](\A r \in RunIds :
          /\ pc[r] \in {"idle", "status_initial", "thrown"} =>
                \A s \in StepNames : action[r][s] = "idle"
          /\ pc[r] \notin {"idle", "status_initial", "thrown"} =>
                /\ Len(statusWrites[r]) >= 1
                /\ statusWrites[r][1].status = "processing"
                /\ statusWrites[r][1].currentStep =
                     IF Len(plan[r].steps) > 0 THEN plan[r].steps[1] ELSE Null)
  /\ [][\A r \in RunIds :
          (pc[r] = "status_initial" /\ UpsertAccepted(r)) =>
             /\ PersistedStatus(r)'.status = "processing"
             /\ PersistedStatus(r)'.current_step =
                  IF Len(plan[r].steps) > 0 THEN plan[r].steps[1] ELSE Null]_vars

\* ["C"] was requested with dependencies on the chain A <- B <- C: the
\* record says processing at A, and A's action is running
C24_Witness ==
  /\ ChainRegistry
  /\ args["r1"].requestedSteps = <<"C">>
  /\ statusWrites["r1"] =
       <<[status |-> "processing", currentStep |-> "A", ok |-> TRUE]>>
  /\ status["e1"].status = "processing"
  /\ status["e1"].current_step = "A"
  /\ action["r1"]["A"] = "running"

\* ------------------------------------------------------------------ C25
\* C25: a step of level k > 1 is dispatched only after the call has issued
\* its k-th status upsert: processing with the first step of level k as
\* current step.  That upsert is issued when every step of level k-1 has
\* settled and no step of level k was dispatched, and whether the store
\* accepts it or not the call goes on to dispatch level k.
StatusWriteIssued(r) == Len(statusWrites'[r]) = Len(statusWrites[r]) + 1

C25_NextLevelAnnouncedBeforeDispatch ==
  /\ [](\A r \in RunIds : \A k \in 2..Len(Groups(r)) :
          (\E s \in SeqToSet(Groups(r)[k]) : attempt[r][s] # "none") =>
             /\ Len(statusWrites[r]) >= k
             /\ statusWrites[r][k].status = "processing"
             /\ statusWrites[r][k].currentStep = Groups(r)[k][1])
  /\ [][\A r \in RunIds :
          (pc[r] = "await_group" /\ StatusWriteIssued(r)) =>
             LET k == groupIndex[r] + 1
             IN  /\ \A s \in SeqToSet(Groups(r)[k - 1]) : Settled(attempt[r][s])
                 /\ \A s \in SeqToSet(Groups(r)[k]) : attempt[r][s] = "none"
                 /\ pc'[r] = "dispatch"
                 /\ groupIndex'[r] = k
                 /\ callError'[r] = callError[r]
                 /\ UpsertAccepted(r) =>
                      /\ PersistedStatus(r)'.status = "processing"
                      /\ PersistedStatus(r)'.current_step = Groups(r)[k][1]]_vars

\* on the chain A <- B <- C the store rejected the upsert announcing B, and
\* B's action is running
C25_Witness ==
  /\ ChainRegistry
  /\ Len(statusWrites["r1"]) = 2
  /\ statusWrites["r1"][2] =
       [status |-> "processing", currentStep |-> "B", ok |-> FALSE]
  /\ attempt["r1"]["B"] = "racing"
  /\ action["r1"]["B"] = "running"

\* ------------------------------------------------------------------ C26
\* the plan createExecutionPlan gives for the arguments of call r
PlanOfArgs(r) ==
  createExecutionPlan(steps,
                      IF args[r].requestedSteps = Undefined THEN Keys(steps)
                      ELSE args[r].requestedSteps,
                      args[r].skipDependencies)

\* C26 (as claimed): a call the store answered the email lookup of rejects
\* only with the email-not-found error.
C26_ThrowsOnlyWhenEmailNotFound ==
  \A r \in RunIds :
     (pc[r] = "thrown" /\ ~LoadFailed(r)) => callError[r] = "email_not_found"

\* C26 (amended): a call rejects only before it has issued any statement
\* but the email lookup or started any step - when the lookup fails or finds
\* no email, or when planning fails; every other call, whatever its steps
\* and its statements do, has not rejected, and when it has returned its
\* context is the one of its email with a result for every planned step,
\* each in the completed or in the failed set.
C26_ThrowsOnlyBeforePlanIsRun ==
  \A r \in RunIds :
     /\ pc[r] = "thrown" =>
           /\ statusWrites[r] = << >>
           /\ logWrites[r] = << >>
           /\ \A s \in StepNames : attempt[r][s] = "none"
           /\ \/ LoadFailed(r)
              \/ callError[r] = "email_not_found"
                   /\ args[r].emailId \notin Emails
              \/ /\ PlanOfArgs(r).err # "none"
                 /\ callError[r] = planError(PlanOfArgs(r))
     /\ (/\ pc[r] # "idle" /\ ~LoadFailed(r)
         /\ args[r].emailId \in Emails /\ PlanOfArgs(r).err = "none") =>
           pc[r] # "thrown"
     /\ pc[r] = "returned" =>
           /\ context[r].emailId = args[r].emailId
           /\ \A s \in Planned(r) :
                 /\ HasResult(r, s)
                 /\ s \in context[r].completedSteps \cup context[r].failedSteps

\* one call has rejected for an unregistered step, the other has returned
\* its context with the retryable step A failed
C26_Witness ==
  /\ pc["r1"] = "thrown"
  /\ callError["r1"] = "Unknown pipeline step: B"
  /\ pc["r2"] = "returned"
  /\ Retryable("A")
  /\ context["r2"].failedSteps = {"A"}
  /\ ~context["r2"].stepResults["A"].success

C28_AutomaticRunsIncludeDependenciesManualRunsSkipThem ==
  \A r \in RunIds :
     (pc[r] # "idle" /\ callError[r] # "Invalid job data") =>
        /\ args[r].requestedSteps = Undefined =>
              /\ ~args[r].skipDependencies
              /\ pc[r] # "thrown" =>
                    /\ Planned(r) = SeqToSet(Keys(steps))
                    /\ \A s \in Planned(r) :
                          \A d \in SeqToSet(DepsOf(steps, s)) :
                             /\ d \in Planned(r)
                             /\ LevelOf(r, d) < LevelOf(r, s)
        /\ (/\ args[r].requestedSteps # Undefined
            /\ Len(args[r].requestedSteps) > 0) =>
              /\ args[r].skipDependencies
              /\ pc[r] # "thrown" =>
                    /\ Planned(r) = SeqToSet(args[r].requestedSteps)
                    /\ NoDuplicates(plan[r].steps)
              /\ pc[r] = "thrown" =>
                    \/ LoadFailed(r)
                    \/ args[r].emailId \notin Emails
                    \/ UnknownRequested(r) # {}
              /\ \A s \in StepNames \ SeqToSet(args[r].requestedSteps) :
                    attempt[r][s] = "none" /\ ~HasResult(r, s)
              /\ pc[r] = "returned" =>
                    \A s \in SeqToSet(args[r].requestedSteps) :
                       HasResult(r, s)

\* the run of ["C"] over the chain has returned: C ran, A and B did not
C28_Witness ==
  /\ ChainRegistry
  /\ args["r1"].requestedSteps = <<"C">>
  /\ args["r1"].skipDependencies
  /\ pc["r1"] = "returned"
  /\ context["r1"].completedSteps = {"C"}
  /\ attempt["r1"]["A"] = "none" /\ attempt["r1"]["B"] = "none"

\* ------------------------------------------------------------------ C29
\* no step action of call r is still running
Quiescent(r) == \A s \in StepNames : action[r][s] # "running"

\* C29: once executeSteps has run for an email and its step actions have
\* settled, running it again with the same arguments adds no row to
\* email_outputs and conversation_outputs and changes no content.
C29_SecondRunChangesNoOutputContent ==
  [][(Finished("r1") /\ Quiescent("r1")) => outputs' = outputs]_vars

\* ------------------------------------------------------------------ C30
\* C30: at every point of a run no step name is both in completedSteps and
\* in failedSteps of its context, whether the store accepts the step's log
\* inserts or not.
C30_CompletedAndFailedDisjoint ==
  \A r \in RunIds :
     context[r].completedSteps \cap context[r].failedSteps = {}

\* ------------------------------------------------------------------ C31
\* C31: when executeSteps has returned, every step of its plan has an entry
\* in stepResults and is in completedSteps or in failedSteps, and
\* stepResults, completedSteps and failedSteps hold no name outside the
\* plan.
C31_ReturnedContextCoversThePlan ==
  \A r \in RunIds :
     pc[r] = "returned" =>
        /\ \A s \in Planned(r) :
              /\ HasResult(r, s)
              /\ s \in context[r].completedSteps \cup context[r].failedSteps
        /\ DOMAIN context[r].stepResults \subseteq Planned(r)
        /\ context[r].completedSteps \subseteq Planned(r)
        /\ context[r].failedSteps \subseteq Planned(r)

\* executeSteps("e1", ["B"]) with dependencies has returned over the fork:
\* A completed, B failed, C was never planned
C31_Witness ==
  /\ pc["r1"] = "returned"
  /\ args["r1"].requestedSteps = <<"B">>
  /\ Planned("r1") = {"A", "B"}
  /\ Has(steps, "C")
  /\ context["r1"].completedSteps = {"A"}
  /\ context["r1"].failedSteps = {"B"}
  /\ DOMAIN context["r1"].stepResults = {"A", "B"}

\* ------------------------------------------------------------------ C32
\* C32: within one call the action of a step is started at most once: an
\* executeStep promise and a step action start only for a step that has
\* had none in this call, so a step that failed or timed out, retryable or
\* not, is not started again.
C32_StepActionStartedAtMostOnce ==
  [][\A r \in RunIds : \A s \in StepNames :
        /\ (attempt'[r][s] = "racing" /\ attempt[r][s] # "racing") =>
              attempt[r][s] = "none" /\ action[r][s] = "idle"
        /\ (action'[r][s] = "running" /\ action[r][s] # "running") =>
              attempt[r][s] = "none" /\ action[r][s] = "idle"
        /\ attempt[r][s] # "none" => attempt'[r][s] # "none"
        /\ action[r][s] # "idle" => action'[r][s] # "idle"]_vars

\* the run has returned after the retryable step A timed out; A was not
\* started again, its action is still running
C32_Witness ==
  /\ pc["r1"] = "returned"
  /\ Retryable("A")
  /\ HasResult("r1", "A")
  /\ context["r1"].stepResults["A"].error = "timeout"
  /\ attempt["r1"]["A"] = "rejected"
  /\ action["r1"]["A"] = "running"

\* ------------------------------------------------------------------ C33
\* C33: in a plan that createExecutionPlan returns, no name occurs twice in
\* the ordered steps, every ordered step is in exactly one level at exactly
\* one position, and the levels hold no other name - also when a name is
\* requested twice or is a dependency of two requested steps.
C33_PlanListsEachStepOnce ==
  (lastCall.op = "createExecutionPlan" /\ lastCall.plan.err = "none") =>
     LET p == lastCall.plan
         places(s) == {<<k, i>> \in (1..Len(p.parallelGroups)) \X
                                     (1..Len(p.steps)) :
                          /\ i <= Len(p.parallelGroups[k])
                          /\ p.parallelGroups[k][i] = s}
     IN  /\ NoDuplicates(p.steps)
         /\ \A s \in SeqToSet(p.steps) : Cardinality(places(s)) = 1
         /\ \A k \in 1..Len(p.parallelGroups) :
               /\ Len(p.parallelGroups[k]) <= Len(p.steps)
               /\ SeqToSet(p.parallelGroups[k]) \subseteq SeqToSet(p.steps)

\* B and C, both after A and both requested, with A planned once
C33_Witness ==
  /\ lastCall.op = "createExecutionPlan"
  /\ lastCall.requestedSteps = <<"B", "C">>
  /\ ~lastCall.skipDependencies
  /\ lastCall.plan.err = "none"
  /\ lastCall.plan.steps = <<"A", "B", "C">>
  /\ lastCall.plan.parallelGroups = <<<<"A">>, <<"B", "C">>>>

\* ------------------------------------------------------------------ C34
FinalStatuses == {"completed", "partial_failure", "failed"}

\* C34: a call that has built its plan ends, its last status upsert being
\* one of completed, partial_failure and failed - also when a step action
\* never settles; and when the store accepted that upsert, the row of the
\* email no longer says processing once its only call has ended.
C34_CallWithPlanEndsWithFinalStatus ==
  /\ \A r \in RunIds :
        (pc[r] = "status_initial") ~>
           (/\ Finished(r)
            /\ statusWrites[r] # << >>
            /\ LastStatusWrite(r).status \in FinalStatuses)
  /\ [](\A r \in RunIds :
          (Finished(r) /\ plan[r] # NoPlan) =>
             /\ statusWrites[r] # << >>
             /\ LastStatusWrite(r).status \in FinalStatuses
             /\ LastStatusWrite(r).ok =>
                   /\ PersistedStatus(r).exists
                   /\ PersistedStatus(r).status = LastStatusWrite(r).status)

\* the call has returned with partial_failure persisted while the actions
\* of both steps are still running
C34_Witness ==
  /\ pc["r1"] = "returned"
  /\ action["r1"]["A"] = "running"
  /\ action["r1"]["B"] = "running"
  /\ LastStatusWrite("r1").ok
  /\ PersistedStatus("r1").status = "partial_failure"

\* ------------------------------------------------------------------ C35
\* call r is between its plan and its return
Executing(r) ==
  pc[r] \in {"status_initial", "dispatch", "await_group", "status_final"}

Done == {"completed", "partial_failure"}

\* C35 (as claimed): while the row of an email says completed or
\* partial_failure, no call for that email is executing - two calls for
\* the same email overlapping or not.
C35_NoCallExecutingWhileStatusDone ==
  \A e \in Emails :
     (status[e].exists /\ status[e].status \in Done) =>
        \A r \in RunIds : args[r].emailId = e => ~Executing(r)

\* C35 (amended): a call issues completed or partial_failure as its last
\* statement only, so the row of an email says completed or partial_failure
\* only when a call for that email has returned and that call's accepted
\* last upsert said so; and while no other call for the email has got as
\* far as its first upsert, no call for it is executing then.
C35_StatusDoneWrittenByReturnedCall ==
  /\ \A r \in RunIds :
        \A i \in 1..Len(statusWrites[r]) :
           statusWrites[r][i].status \in Done =>
              i = Len(statusWrites[r]) /\ pc[r] = "returned"
  /\ \A e \in Emails :
        (status[e].exists /\ status[e].status \in Done) =>
           /\ \E r \in RunIds :
                 /\ args[r].emailId = e
                 /\ pc[r] = "returned"
                 /\ LastStatusWrite(r).ok
                 /\ LastStatusWrite(r).status = status[e].status
           /\ \A r \in RunIds :
                 (/\ args[r].emailId = e
                  /\ \A o \in RunIds \ {r} : statusWrites[o] = << >>
                                               /\ ~Executing(o)) =>
                    ~Executing(r)

\* one call has returned and left partial_failure in the row while the
\* other call for the same email is waiting for its step
C35_Witness ==
  /\ pc["r1"] = "returned"
  /\ args["r1"].emailId = "e1" /\ args["r2"].emailId = "e1"
  /\ status["e1"].exists
  /\ status["e1"].status = "partial_failure"
  /\ pc["r2"] = "await_group"
  /\ attempt["r2"]["A"] = "racing"

\* ------------------------------------------------------------------ C36
\* C36: the handler of a queue job without a step list fails (the call has
\* thrown, the error goes to the queue) when the action of a retryable step
\* threw or timed out in its run, and completes (the call has returned)
\* when the actions that failed are those of non-retryable steps only.
C36_JobFailsExactlyOnRetryableFailure ==
  \A r \in RunIds :
     (Finished(r) /\ plan[r] # NoPlan /\ args[r].requestedSteps = Undefined) =>
        (pc[r] = "thrown" <=> \E s \in ActionFailures(r) : Retryable(s))

\* ------------------------------------------------------------------ C37
\* a registered step reachable from the requested names depends on itself
\* through registered dependencies
CycleReachable(S, requestedSteps) ==
  \E n \in ReachSet(S, SeqToSet(requestedSteps)) :
     Has(S, n) /\ n \in ReachSet(S, SeqToSet(DepsOf(S, n)))

\* C37: when the steps reachable from the requested (registered) names hold
\* a dependency cycle, createExecutionPlan ends with the circular
\* dependency error, with dependencies included or skipped: it returns no
\* plan and does not recurse without end.
C37_ReachableCycleRaisesCircular ==
  (/\ lastCall.op = "createExecutionPlan"
   /\ Len(lastCall.requestedSteps) > 0
   /\ \A n \in SeqToSet(lastCall.requestedSteps) : Has(steps, n)
   /\ CycleReachable(steps, lastCall.requestedSteps)) =>
      lastCall.plan.err = "circular"

\* ------------------------------------------------------------------ C38
\* number of jobs queued for an email id
JobsFor(emailId) ==
  Cardinality({k \in 1..Len(inpoint.jobs) : inpoint.jobs[k] = emailId})

\* request q has inserted the row of source id m and not yet called
\* enqueueEmailProcess for it
AboutToEnqueue(q, m) ==
  inpoint.req[q].pc = "enqueue" /\ Msg(q) = m

\* C38: whatever requests are made, table emails holds a source id at most
\* once, no email has more than one job, and every stored message has
\* exactly one job once the request that stored it is past its enqueue
\* call - also when that call failed.
C38_StoredOnceEnqueuedOnce ==
  /\ NoDuplicates(inpoint.emails)
  /\ \A m \in SourceIds : JobsFor(RowId(m)) <= 1
  /\ \A m \in SeqToSet(inpoint.emails) :
        (\A q \in Requests : ~AboutToEnqueue(q, m)) => JobsFor(RowId(m)) = 1

====
